---------------------------- MODULE Spec2Model ----------------------------
(***************************************************************************)
(* A model of centiq-filters: the fragment merge of the filter factories   *)
(* (filters/core.js) with the Or, Not and Regex rewrites, and the filter   *)
(* instance in its three generations: the EventEmitter instance            *)
(* (Filter.js, first definition), the Tracker instance with one dependency *)
(* and an emit flag (part_007), and the Tracker instance with per-name     *)
(* dependencies and a pause counter (Filter.js, Filter.create), with its   *)
(* clone, its class-level meta and the callback of its beforeSet hook.     *)
(*                                                                         *)
(* A JavaScript object is a sequence of <<key, value>> pairs in insertion  *)
(* order (the order Object.keys walks), with distinct keys.                *)
(***************************************************************************)
EXTENDS Integers, Sequences, FiniteSets, TLC

VARIABLES
    frags,      \* the fragments (SpecMerge, SpecOr), the selector (SpecNot) or
                \* the $regex object (SpecRegex) handed to a converter
    out,        \* what the converter returned; SpecClone: the clone of the
                \* instance; SpecHook: the callbacks the timers hold
    cls,        \* the filter class Filter.create returned (or that it threw)
    data,       \* this._data
    resetSnap,  \* this._reset
    tracking,   \* this._tracking (Filter.create of Filter.js)
    emitc,      \* this._emit_changes (part_007)
    last        \* the last call on the instance: what it was and what it fired

mergeVars == <<frags, out>>
instVars  == <<cls, data, resetSnap, tracking, emitc, last>>
vars      == <<frags, out, cls, data, resetSnap, tracking, emitc, last>>

(***************************************************************************)
(* Bounds.                                                                 *)
(***************************************************************************)
MaxFrags == 3

(***************************************************************************)
(* JavaScript objects.                                                     *)
(***************************************************************************)
Keys(o) == { o[i][1] : i \in 1..Len(o) }

Has(o, k) == \E i \in 1..Len(o) : o[i][1] = k

Get(o, k) == o[CHOOSE i \in 1..Len(o) : o[i][1] = k][2]

Put(o, k, v) ==
    IF Has(o, k)
    THEN [i \in 1..Len(o) |-> IF o[i][1] = k THEN <<k, v>> ELSE o[i]]
    ELSE Append(o, <<k, v>>)

Del(o, k) == SelectSeq(o, LAMBDA p : p[1] # k)

KeySeq(o) == [i \in 1..Len(o) |-> o[i][1]]

\* EJSON.equals on two objects, key order not significant.
ObjEquals(o1, o2) ==
    /\ Keys(o1) = Keys(o2)
    /\ \A k \in Keys(o1) : Get(o1, k) = Get(o2, k)

(***************************************************************************)
(* filters/core.js: fixupAnd, and the And converter over a list.           *)
(* A query under construction is [obj, listed, list]: obj holds the keys   *)
(* other than a $and list, and listed says that the key $and holds list.   *)
(***************************************************************************)
AND == "$and"

QHas(q, k) == Has(q.obj, k) \/ (k = AND /\ q.listed)

\* one key k of fragment f, inside the two forEach loops
FixupAndKeyDropsMutant(st, f, k) ==
    IF QHas(st.q, k)
    THEN st
    ELSE [st EXCEPT !.q.obj = Put(@, k, Get(f, k))]

FixupAndKey(st, f, k) ==
    IF QHas(st.q, k)
    THEN [st EXCEPT !.ov = Append(@, f)]
    ELSE [st EXCEPT !.q.obj = Put(@, k, Get(f, k))]

RECURSIVE FixupAndFrag(_, _, _)
FixupAndFrag(st, f, i) ==
    IF i > Len(f) THEN st
    ELSE FixupAndFrag(FixupAndKey(st, f, f[i][1]), f, i + 1)

RECURSIVE FixupAndWalk(_, _, _)
FixupAndWalk(st, fs, i) ==
    IF i > Len(fs) THEN st
    ELSE FixupAndWalk(FixupAndFrag(st, fs[i], 1), fs, i + 1)

fixupAnd(fs) ==
    LET st == FixupAndWalk([q |-> [obj |-> <<>>, listed |-> TRUE, list |-> fs],
                            ov |-> <<>>], fs, 1)
    IN  [obj |-> st.q.obj, listed |-> st.ov # <<>>, list |-> st.ov]

\* Filter.And(list)(): the list form, the fragments already built
And(fs) == fixupAnd(fs)

(***************************************************************************)
(* Filter.js: the merge at the end of filter.prototype.query.              *)
(* compact is [null, obj].                                                 *)
(***************************************************************************)
\* a collision overwrites the earlier value instead of giving up on compacting
CompactKeyOverwriteMutant(c, f, k) ==
    IF c.null THEN c
    ELSE [c EXCEPT !.obj = Put(@, k, Get(f, k))]

CompactKey(c, f, k) ==
    IF c.null THEN c
    ELSE IF Has(c.obj, k) THEN [c EXCEPT !.null = TRUE]
    ELSE [c EXCEPT !.obj = Put(@, k, Get(f, k))]

RECURSIVE CompactFrag(_, _, _)
CompactFrag(c, f, i) ==
    IF i > Len(f) THEN c
    ELSE CompactFrag(CompactKey(c, f, f[i][1]), f, i + 1)

RECURSIVE CompactWalk(_, _, _)
CompactWalk(c, fs, i) ==
    IF i > Len(fs) THEN c
    ELSE CompactWalk(CompactFrag(c, fs[i], 1), fs, i + 1)

QueryMerge(queries) ==
    LET c == CompactWalk([null |-> FALSE, obj |-> <<>>], queries, 1)
    IN  IF c.null
        THEN [obj |-> <<>>, listed |-> TRUE, list |-> queries]
        ELSE [obj |-> c.obj, listed |-> FALSE, list |-> <<>>]

\* deep equality of two query documents
QEquals(q1, q2) ==
    /\ ObjEquals(q1.obj, q2.obj)
    /\ q1.listed = q2.listed
    /\ q1.listed => q1.list = q2.list


(***************************************************************************)
(* SpecMerge: a list of fragments, merged by And and by query.             *)
(***************************************************************************)
FragKeys == {"f1", "f2", AND}
FragVals == {1, 2}

Fragments ==
    { <<<<k, v>>>> : k \in FragKeys, v \in FragVals }
    \cup { <<<<k[1], v>>, <<k[2], v>>>> :
             k \in {kk \in FragKeys \X FragKeys : kk[1] # kk[2]}, v \in FragVals }

FragLists == UNION { [1..n -> Fragments] : n \in 0..MaxFrags }

NoQuery == [obj |-> <<>>, listed |-> FALSE, list |-> <<>>]

InstIdle ==
    /\ cls = [impl |-> "none", ok |-> FALSE]
    /\ data = <<>>
    /\ resetSnap = <<>>
    /\ tracking = [paused |-> 0, queue |-> <<>>, trackers |-> {}]
    /\ emitc = [status |-> TRUE, changed |-> FALSE]
    /\ last = [op |-> "new"]

InitMerge ==
    /\ frags \in FragLists
    /\ out = [andDone |-> FALSE, and |-> NoQuery, queryDone |-> FALSE, query |-> NoQuery]
    /\ InstIdle

ApplyAnd ==
    /\ out' = [out EXCEPT !.andDone = TRUE, !.and = And(frags)]
    /\ UNCHANGED <<frags, instVars>>

ApplyQuery ==
    /\ out' = [out EXCEPT !.queryDone = TRUE, !.query = QueryMerge(frags)]
    /\ UNCHANGED <<frags, instVars>>

NextMerge == ApplyAnd \/ ApplyQuery

SpecMerge == InitMerge /\ [][NextMerge]_vars


(***************************************************************************)
(* Values, and the converters of the README's ProductFilter.               *)
(* A value is [t, v]: a number v, the numeric string of v ("string"), or a *)
(* string that is no number ("word").                                      *)
(***************************************************************************)
Num(n) == [t |-> "number", v |-> n]
Str(n) == [t |-> "string", v |-> n]
Word   == [t |-> "word", v |-> 0]
Undefined == [t |-> "undefined", v |-> 0]

Values == {Num(1), Num(2), Word}

\* parseFloat(value): [nan, v]
ParseFloat(value) == [nan |-> value.t \notin {"number", "string"}, v |-> value.v]

\* Filter.Gte(field)(value), Filter.Lt(field)(value): [ok, frag]; not ok is a throw
Compare(field, op, value) ==
    LET n == IF value.t # "number" THEN ParseFloat(value)
                                   ELSE [nan |-> FALSE, v |-> value.v]
    IN  IF n.nan
        THEN [ok |-> FALSE, frag |-> <<>>]
        ELSE [ok |-> TRUE, frag |-> <<<<field, [op |-> op, v |-> n.v]>>>>]

MIN == "MinPrice"
ADDED == "AddedBefore"
ROOT == "...ROOT..."

Other(n) == IF n = MIN THEN ADDED ELSE MIN

\* spec[key].filter.call(..., value)
Filter(key, value) ==
    IF key = MIN THEN Compare("price", "$gte", value)
    ELSE Compare("added", "$lt", value)

(***************************************************************************)
(* The hooks a filter specification may carry. A hook is user code; these  *)
(* are the README's: beforeSet raising a value below `low` to `low`, and   *)
(* hooks that use this.filter to set the other filter.                     *)
(***************************************************************************)
Low == Num(2)

\* value < low
Less(value, low) == value.t \in {"number", "string"} /\ value.v < low.v

NoHooks == [beforeSet |-> "none", beforeUnset |-> "none"]

Entries(hs) == <<<<MIN, hs>>, <<ADDED, NoHooks>>>>

(***************************************************************************)
(* Filter.js, Filter.create: the normalization of its argument.            *)
(* The argument is [shape, type, items]: items the name/config pairs,      *)
(* shape how they are passed: "plain" {n: c}, "wrapped" {filters: {n: c}}, *)
(* "list" [{n: c}], "wrappedList" {filters: [{n: c}]}.                      *)
(***************************************************************************)
IsArray(shape) == shape = "list"

\* spec = spec.filters: a plain mapping has no filters key
T_createAcceptsPlainMutant(input) ==
    [impl |-> "tracker",
     ok |-> TRUE,
     shape |-> input.shape,
     type |-> IF IsArray(input.shape) THEN "null" ELSE input.type,
     names |-> KeySeq(input.items),
     spec |-> input.items]

T_create(input) ==
    IF input.shape = "plain"
    THEN [impl |-> "tracker", ok |-> FALSE,    \* throw "Missing filter definitions"
          shape |-> input.shape]
    ELSE [impl |-> "tracker",
          ok |-> TRUE,
          shape |-> input.shape,
          type |-> IF IsArray(input.shape) THEN "null" ELSE input.type,
          names |-> KeySeq(input.items),
          spec |-> input.items]

SpecHas(key) == Has(cls.spec, key)

(***************************************************************************)
(* Filter.js, the instance of Filter.create: per-name Tracker dependencies *)
(* and a pause counter. A call runs on a record m = [data, tr, fired,      *)
(* touched, depth, exc]: fired is the log of the changed() calls made,     *)
(* touched the registered trackers _trackChanged was called for, each with *)
(* the counter it found, depth the number of instance methods on the       *)
(* stack, exc the error thrown ("none" when none): once a call threw, the  *)
(* statements after it do not run.                                         *)
(***************************************************************************)
Threw(m) == m.exc # "none"

Enter(m) == [m EXCEPT !.depth = @ + 1]
Leave(m) == [m EXCEPT !.depth = @ - 1]

\* trackers[name].changed()
Changed(m, name, from) ==
    [m EXCEPT !.fired = Append(@, [t |-> name, paused |-> m.tr.paused,
                                   depth |-> m.depth, from |-> from])]

T_pauseTracking(m) == [m EXCEPT !.tr.paused = @ + 1]

RECURSIVE T_flush(_)
T_flush(m) ==
    IF m.tr.queue = <<>> THEN m
    ELSE T_flush([Changed(m, Head(m.tr.queue), "continue")
                    EXCEPT !.tr.queue = Tail(@)])

\* fires the queue whatever the counter
T_continueTrackingEagerMutant(m) ==
    T_flush([m EXCEPT !.tr.paused = @ - 1])

T_continueTracking(m) ==
    LET m1 == [m EXCEPT !.tr.paused = @ - 1]
    IN  IF m1.tr.paused > 0 THEN m1 ELSE T_flush(m1)

T_trackOne(m, name) ==
    IF name \notin m.tr.trackers THEN m
    ELSE
      LET m1 == [m EXCEPT !.touched = @ \cup {[t |-> name, paused |-> m.tr.paused]}]
      IN  IF m1.tr.paused # 0
          THEN IF \E i \in 1..Len(m1.tr.queue) : m1.tr.queue[i] = name
               THEN m1
               ELSE [m1 EXCEPT !.tr.queue = Append(@, name)]
          ELSE Changed(m1, name, "changed")

T_trackChanged(m, name) == T_trackOne(T_trackOne(m, name), ROOT)

T_trackDepend(tr, name) == [tr EXCEPT !.trackers = @ \cup {name}]

RECURSIVE T_set(_, _)
RECURSIVE T_unset(_, _)

\* spec[key].beforeSet.call({name, filter}, value, callback): [m, value]
T_beforeSet(m, key, value) ==
    LET h == Get(cls.spec, key).beforeSet
    IN  CASE h = "low" ->
               [m |-> m, value |-> IF Less(value, Low) THEN Low ELSE value]
          [] h = "setOther" ->
               [m |-> T_set(m, <<<<Other(key), Num(2)>>>>), value |-> value]
          [] h = "lowLater" ->        \* callback(low) from a timer: not now
               [m |-> m, value |-> value]
          [] OTHER -> [m |-> m, value |-> value]

\* spec[k].beforeUnset.call({name, filter})
T_beforeUnset(m, key) ==
    LET h == Get(cls.spec, key).beforeUnset
    IN  CASE h = "setOther" -> T_set(m, <<<<Other(key), Num(1)>>>>)
          [] OTHER -> m

StoredValue(d, key) == IF Has(d, key) THEN Get(d, key).value ELSE Undefined

\* set stores a value under a name the specification does not have
T_setItemStoresUnknownMutant(m, key, value) ==
    IF Threw(m) THEN m
    ELSE IF ~SpecHas(key) THEN [m EXCEPT !.data = Put(@, key, [value |-> value])]
    ELSE
      LET h  == T_beforeSet(m, key, value)
          m1 == h.m
      IN  IF Threw(m1) THEN m1
          ELSE IF StoredValue(m1.data, key) = h.value THEN m1
          ELSE
            LET m2 == [m1 EXCEPT !.data = Put(@, key, [value |-> h.value])]
                m3 == T_trackChanged(m2, key)
            IN  IF Filter(key, h.value).ok THEN m3
                ELSE [m3 EXCEPT !.exc = "invalid value"]

\* the body of set's forEach, for one key
T_setItem(m, key, value) ==
    IF Threw(m) THEN m
    ELSE IF ~SpecHas(key) THEN [m EXCEPT !.exc = "no filter spec"]
    ELSE
      LET h  == T_beforeSet(m, key, value)
          m1 == h.m
      IN  IF Threw(m1) THEN m1
          ELSE IF StoredValue(m1.data, key) = h.value THEN m1
          ELSE
            LET m2 == [m1 EXCEPT !.data = Put(@, key, [value |-> h.value])]
                m3 == T_trackChanged(m2, key)
            IN  IF Filter(key, h.value).ok THEN m3
                ELSE [m3 EXCEPT !.exc = "invalid value"]

RECURSIVE T_setItems(_, _, _)
T_setItems(m, items, i) ==
    IF i > Len(items) THEN m
    ELSE T_setItems(T_setItem(m, items[i][1], items[i][2]), items, i + 1)

\* a throw leaves the method without _continueTracking
T_finish(m) == Leave(IF Threw(m) THEN m ELSE T_continueTracking(m))

T_set(m, items) ==
    T_finish(T_setItems(T_pauseTracking(Enter(m)), items, 1))

T_unsetItem(m, k) ==
    IF Threw(m) \/ ~Has(m.data, k) THEN m
    ELSE
      LET m1 == T_beforeUnset(m, k)
      IN  IF Threw(m1) THEN m1
          ELSE T_trackChanged([m1 EXCEPT !.data = Del(@, k)], k)

RECURSIVE T_unsetItems(_, _, _)
T_unsetItems(m, ks, i) ==
    IF i > Len(ks) THEN m
    ELSE T_unsetItems(T_unsetItem(m, ks[i]), ks, i + 1)

T_unset(m, ks) ==
    T_finish(T_unsetItems(T_pauseTracking(Enter(m)), ks, 1))

\* the names the payload does not have stay set
T_clearOldKeepsMutant(m, set, ks, i) == m

\* clear's first forEach, over the keys _data had when it began
RECURSIVE T_clearOld(_, _, _, _)
T_clearOld(m, set, ks, i) ==
    IF i > Len(ks) \/ Threw(m) THEN m
    ELSE T_clearOld(
           IF Has(set, ks[i])
           THEN T_set(m, <<<<ks[i], Get(set, ks[i])>>>>)
           ELSE T_unset(m, <<ks[i]>>),
           set, ks, i + 1)

\* clear's second forEach, over the keys of the payload
RECURSIVE T_clearNew(_, _, _)
T_clearNew(m, set, i) ==
    IF i > Len(set) \/ Threw(m) THEN m
    ELSE T_clearNew(
           IF Has(m.data, set[i][1]) THEN m
           ELSE T_set(m, <<set[i]>>),
           set, i + 1)

T_clear(m, set) ==
    LET m0 == T_pauseTracking(Enter(m))
        m1 == T_clearOld(m0, set, KeySeq(m0.data), 1)
    IN  T_finish(T_clearNew(m1, set, 1))

\* to = clone(_reset) with the payload laid over it
RECURSIVE ResetTarget(_, _, _)
ResetTarget(to, set, i) ==
    IF i > Len(set) THEN to
    ELSE ResetTarget(Put(to, set[i][1], [value |-> set[i][2]]), set, i + 1)

RECURSIVE T_resetSet(_, _, _)
T_resetSet(m, to, i) ==
    IF i > Len(to) \/ Threw(m) THEN m
    ELSE T_resetSet(T_set(m, <<<<to[i][1], to[i][2].value>>>>), to, i + 1)

\* the names set since construction stay set
T_resetUnsetKeepsMutant(m, from, to, i) == m

RECURSIVE T_resetUnset(_, _, _, _)
T_resetUnset(m, from, to, i) ==
    IF i > Len(from) \/ Threw(m) THEN m
    ELSE T_resetUnset(
           IF Has(to, from[i][1]) THEN m ELSE T_unset(m, <<from[i][1]>>),
           from, to, i + 1)

T_reset(m, snap, set) ==
    LET from == m.data
        to   == ResetTarget(snap, set, 1)
        m0   == T_pauseTracking(Enter(m))
        m1   == T_resetSet(m0, to, 1)
    IN  T_finish(T_resetUnset(m1, from, to, 1))

\* save(): the mapping of name to value
RECURSIVE T_save(_)
T_save(d) ==
    IF d = <<>> THEN <<>>
    ELSE <<<<d[1][1], d[1][2].value>>>> \o T_save(Tail(d))

\* the converters are called in the order the values were set
RECURSIVE T_queriesInSetOrderMutant(_, _, _)
T_queriesInSetOrderMutant(d, names, i) ==
    IF i > Len(d) THEN <<>>
    ELSE <<Filter(d[i][1], d[i][2].value)>> \o T_queriesInSetOrderMutant(d, names, i + 1)

\* query()'s forEach over the spec: the converters' results for the filters
\* that are set
RECURSIVE T_queries(_, _, _)
T_queries(d, names, i) ==
    IF i > Len(names) THEN <<>>
    ELSE (IF Has(d, names[i])
          THEN <<Filter(names[i], Get(d, names[i]).value)>>
          ELSE <<>>) \o T_queries(d, names, i + 1)

\* query(extra): [ok, q]; not ok when a converter threw
T_query(d, extra) ==
    LET rs == T_queries(d, cls.names, 1)
    IN  IF \E i \in 1..Len(rs) : ~rs[i].ok
        THEN [ok |-> FALSE, q |-> NoQuery]
        ELSE [ok |-> TRUE,
              q |-> QueryMerge(extra \o [i \in 1..Len(rs) |-> rs[i].frag])]

\* new filter(set)
T_new(set) ==
    LET m0 == [data |-> <<>>,
               tr |-> [paused |-> 0, queue |-> <<>>, trackers |-> {}],
               fired |-> <<>>, touched |-> {}, depth |-> 0, exc |-> "none"]
    IN  T_set(m0, set)

T_newReset(set) == [i \in 1..Len(set) |-> <<set[i][1], [value |-> set[i][2]]>>]

(***************************************************************************)
(* SpecTracker: a class made by Filter.create of Filter.js, one instance   *)
(* of it, and the calls made on the instance.                              *)
(***************************************************************************)
MaxPaused == 1

Names == {MIN, ADDED}

HookSets ==
    { NoHooks,
      [beforeSet |-> "low", beforeUnset |-> "none"],
      [beforeSet |-> "setOther", beforeUnset |-> "none"],
      [beforeSet |-> "none", beforeUnset |-> "setOther"] }

CreateInputs ==
    { [shape |-> "plain", type |-> "null", items |-> Entries(NoHooks)] }
    \cup { [shape |-> "wrapped", type |-> "Product", items |-> Entries(hs)] :
             hs \in HookSets }

InitialSets ==
    { <<<<MIN, Num(1)>>>>, <<<<ADDED, Num(1)>>, <<MIN, Num(2)>>>> }

Singles == { <<<<n, v>>>> : n \in Names, v \in Values }

Pairs ==
    { <<<<MIN, v>>, <<ADDED, w>>>> : v \in {Num(1), Word}, w \in {Num(1)} }
    \cup { <<<<ADDED, w>>, <<MIN, v>>>> : v \in {Num(1)}, w \in {Num(1), Num(2)} }

SetInputs == Singles \cup Pairs \cup { <<<<"Missing", Num(1)>>>> }

Payloads == { <<>>, <<<<MIN, Num(2)>>>>, <<<<ADDED, Num(1)>>>> }

UnsetInputs == { <<MIN>>, <<ADDED>>, <<MIN, ADDED>> }

NoCall == [op |-> "none", args |-> <<>>, fired |-> <<>>, touched |-> {},
           exc |-> "none", ret |-> <<>>]

MergeIdle ==
    /\ frags = <<>>
    /\ out = [andDone |-> FALSE, and |-> NoQuery, queryDone |-> FALSE, query |-> NoQuery]

InitTracker ==
    /\ MergeIdle
    /\ emitc = [status |-> TRUE, changed |-> FALSE]
    /\ \E input \in CreateInputs : cls = T_create(input)
    /\ IF cls.ok
       THEN \E set \in InitialSets :
              LET m == T_new(set)
              IN  /\ ~Threw(m)
                  /\ data = m.data
                  /\ resetSnap = T_newReset(set)
                  /\ tracking = m.tr
                  /\ last = [NoCall EXCEPT !.op = "new", !.args = set]
       ELSE /\ data = <<>>
            /\ resetSnap = <<>>
            /\ tracking = [paused |-> 0, queue |-> <<>>, trackers |-> {}]
            /\ last = [NoCall EXCEPT !.op = "create", !.exc = "Missing filter definitions"]

\* the class was made by Filter.create of Filter.js, which did not throw
IsTracker == cls.impl = "tracker" /\ cls.ok

Start == [data |-> data, tr |-> tracking, fired |-> <<>>, touched |-> {},
          depth |-> 0, exc |-> "none"]

\* the instance after a call that ran to m
T_Done(m, op, args) ==
    /\ IsTracker
    /\ m.tr.paused <= MaxPaused
    /\ data' = m.data
    /\ tracking' = m.tr
    /\ last' = [op |-> op, args |-> args, fired |-> m.fired, touched |-> m.touched,
                exc |-> m.exc, ret |-> <<>>]
    /\ UNCHANGED <<cls, resetSnap, emitc, mergeVars>>

T_Set == \E items \in SetInputs : T_Done(T_set(Start, items), "set", items)

T_Unset == \E ks \in UnsetInputs : T_Done(T_unset(Start, ks), "unset", ks)

T_Clear == \E set \in Payloads : T_Done(T_clear(Start, set), "clear", set)

T_Reset ==
    \E set \in Payloads : T_Done(T_reset(Start, resetSnap, set), "reset", set)

\* get(name): reactive, registers the name's dependency
T_Get ==
    /\ IsTracker
    /\ \E name \in Names :
         /\ tracking' = T_trackDepend(tracking, name)
         /\ last' = [NoCall EXCEPT !.op = "get", !.args = <<name>>,
                                   !.ret = <<StoredValue(data, name)>>]
    /\ UNCHANGED <<cls, data, resetSnap, emitc, mergeVars>>

\* save(): reactive, registers the root dependency
T_Save ==
    /\ IsTracker
    /\ tracking' = T_trackDepend(tracking, ROOT)
    /\ last' = [NoCall EXCEPT !.op = "save", !.ret = T_save(data)]
    /\ UNCHANGED <<cls, data, resetSnap, emitc, mergeVars>>

\* query(): reactive, registers the root dependency before the converters run
T_Query ==
    /\ IsTracker
    /\ tracking' = T_trackDepend(tracking, ROOT)
    /\ LET r == T_query(data, <<>>)
       IN  last' = [NoCall EXCEPT !.op = "query",
                                  !.exc = IF r.ok THEN "none" ELSE "invalid value",
                                  !.ret = r.q]
    /\ UNCHANGED <<cls, data, resetSnap, emitc, mergeVars>>

NextTracker == T_Set \/ T_Unset \/ T_Clear \/ T_Reset \/ T_Get \/ T_Save \/ T_Query

SpecTracker == InitTracker /\ [][NextTracker]_vars

(***************************************************************************)
(* Filter.js, first definition: Filter(spec), whose instances are          *)
(* EventEmitters. An entry of _data is [enabled, value]. A call runs on    *)
(* m = [data, fired, exc]; fired logs the emit('change') calls.            *)
(***************************************************************************)
\* Filter(spec): the class of a mapping of name to converter
E_create(items) ==
    [impl |-> "emitter", ok |-> TRUE, shape |-> "plain", type |-> "null",
     names |-> KeySeq(items), spec |-> items]

E_emit(m) == [m EXCEPT !.fired = Append(@, [t |-> "change"])]

\* the body of set's forEach, for one key: [m, changed]
E_setItem(st, key, value) ==
    IF Threw(st.m) THEN st
    ELSE IF key \notin Names
    THEN [st EXCEPT !.m.exc = "no filter spec"]
    ELSE
      LET has == Has(st.m.data, key)
          chg == IF has THEN Get(st.m.data, key).value # value ELSE TRUE
          en  == IF has THEN Get(st.m.data, key).enabled ELSE TRUE
          m1  == [st.m EXCEPT !.data = Put(@, key, [enabled |-> en, value |-> value])]
      IN  [m |-> IF Filter(key, value).ok THEN m1
                 ELSE [m1 EXCEPT !.exc = "invalid value"],
           changed |-> st.changed \/ chg]

RECURSIVE E_setItems(_, _, _)
E_setItems(st, items, i) ==
    IF i > Len(items) THEN st
    ELSE E_setItems(E_setItem(st, items[i][1], items[i][2]), items, i + 1)

\* emit when the loop found a change, unless a throw left the method
E_finish(st) == IF ~Threw(st.m) /\ st.changed THEN E_emit(st.m) ELSE st.m

E_set(m, items) == E_finish(E_setItems([m |-> m, changed |-> FALSE], items, 1))

E_unsetItem(st, k) ==
    IF Has(st.m.data, k)
    THEN [m |-> [st.m EXCEPT !.data = Del(@, k)], changed |-> TRUE]
    ELSE st

RECURSIVE E_unsetItems(_, _, _)
E_unsetItems(st, ks, i) ==
    IF i > Len(ks) THEN st
    ELSE E_unsetItems(E_unsetItem(st, ks[i]), ks, i + 1)

E_unset(m, ks) == E_finish(E_unsetItems([m |-> m, changed |-> FALSE], ks, 1))

E_clear(m) ==
    E_finish([m |-> [m EXCEPT !.data = <<>>], changed |-> Len(m.data) # 0])

E_reset(m, snap) ==
    E_finish([m |-> [m EXCEPT !.data = snap], changed |-> ~ObjEquals(m.data, snap)])

\* enable (to = TRUE) and disable (to = FALSE), for one key
E_flagItem(st, k, to) ==
    IF ~Has(st.m.data, k) THEN st
    ELSE IF Get(st.m.data, k).enabled = to THEN st
    ELSE [m |-> [st.m EXCEPT !.data = Put(@, k, [Get(@, k) EXCEPT !.enabled = to])],
          changed |-> TRUE]

RECURSIVE E_flagItems(_, _, _, _)
E_flagItems(st, ks, to, i) ==
    IF i > Len(ks) THEN st
    ELSE E_flagItems(E_flagItem(st, ks[i], to), ks, to, i + 1)

\* disable leaves the entry out of _data
E_disableDeletesMutant(m, ks) == E_unset(m, ks)

E_enable(m, ks) == E_finish(E_flagItems([m |-> m, changed |-> FALSE], ks, TRUE, 1))

E_disable(m, ks) == E_finish(E_flagItems([m |-> m, changed |-> FALSE], ks, FALSE, 1))

E_enabled(d, name) == IF ~Has(d, name) THEN FALSE ELSE Get(d, name).enabled

E_get(d, name) == StoredValue(d, name)

\* save(): the values of the enabled entries
RECURSIVE E_save(_)
E_save(d) ==
    IF d = <<>> THEN <<>>
    ELSE (IF d[1][2].enabled THEN <<<<d[1][1], d[1][2].value>>>> ELSE <<>>)
         \o E_save(Tail(d))

\* query()'s forEach over the spec: the converters' results for the enabled entries
RECURSIVE E_queries(_, _, _)
E_queries(d, names, i) ==
    IF i > Len(names) THEN <<>>
    ELSE (IF Has(d, names[i]) /\ Get(d, names[i]).enabled
          THEN <<Filter(names[i], Get(d, names[i]).value)>>
          ELSE <<>>) \o E_queries(d, names, i + 1)

\* query(extra): [ok, q]; not ok when a converter threw
E_query(d, names, extra) ==
    LET rs == E_queries(d, names, 1)
    IN  IF \E i \in 1..Len(rs) : ~rs[i].ok
        THEN [ok |-> FALSE, q |-> NoQuery]
        ELSE [ok |-> TRUE,
              q |-> QueryMerge(extra \o [i \in 1..Len(rs) |-> rs[i].frag])]

\* new filter(set): _reset, then this.set(set)
E_newReset(set) ==
    [i \in 1..Len(set) |-> <<set[i][1], [enabled |-> TRUE, value |-> set[i][2]]>>]

E_new(set) == E_set([data |-> <<>>, fired |-> <<>>, exc |-> "none"], set)

(***************************************************************************)
(* SpecEmitter: one instance of a class made by Filter(spec), and the      *)
(* calls made on it. last.before is _data as the call found it.            *)
(***************************************************************************)
E_InitialSets ==
    { <<>>, <<<<MIN, Num(1)>>>>, <<<<ADDED, Num(1)>>, <<MIN, Num(2)>>>> }

NameLists == { <<MIN>>, <<ADDED>>, <<MIN, ADDED>> }

InitEmitter ==
    /\ MergeIdle
    /\ emitc = [status |-> TRUE, changed |-> FALSE]
    /\ tracking = [paused |-> 0, queue |-> <<>>, trackers |-> {}]
    /\ cls = E_create(Entries(NoHooks))
    /\ \E set \in E_InitialSets :
         /\ data = E_new(set).data
         /\ resetSnap = E_newReset(set)
         /\ last = [op |-> "new", args |-> set, before |-> <<>>, fired |-> <<>>,
                    exc |-> "none", ret |-> <<>>]

IsEmitter == cls.impl = "emitter"

E_Start == [data |-> data, fired |-> <<>>, exc |-> "none"]

E_Done(m, op, args) ==
    /\ IsEmitter
    /\ data' = m.data
    /\ last' = [op |-> op, args |-> args, before |-> data, fired |-> m.fired,
                exc |-> m.exc, ret |-> <<>>]
    /\ UNCHANGED <<cls, resetSnap, tracking, emitc, mergeVars>>

E_Returns(op, args, ret, exc) ==
    /\ IsEmitter
    /\ last' = [op |-> op, args |-> args, before |-> data, fired |-> <<>>,
                exc |-> exc, ret |-> ret]
    /\ UNCHANGED <<cls, data, resetSnap, tracking, emitc, mergeVars>>

E_Set == \E items \in SetInputs : E_Done(E_set(E_Start, items), "set", items)

E_Unset == \E ks \in NameLists : E_Done(E_unset(E_Start, ks), "unset", ks)

E_Clear == E_Done(E_clear(E_Start), "clear", <<>>)

E_Reset == E_Done(E_reset(E_Start, resetSnap), "reset", <<>>)

E_Enable == \E ks \in NameLists : E_Done(E_enable(E_Start, ks), "enable", ks)

E_Disable == \E ks \in NameLists : E_Done(E_disable(E_Start, ks), "disable", ks)

E_Save == E_Returns("save", <<>>, E_save(data), "none")

E_Query ==
    LET r == E_query(data, cls.names, <<>>)
    IN  E_Returns("query", <<>>, r.q, IF r.ok THEN "none" ELSE "invalid value")

NextEmitter ==
    E_Set \/ E_Unset \/ E_Clear \/ E_Reset \/ E_Enable \/ E_Disable \/ E_Save \/ E_Query

SpecEmitter == InitEmitter /\ [][NextEmitter]_vars

(***************************************************************************)
(* unnamed/part_007: Filter.create with enable and disable, one Tracker    *)
(* dependency for the whole instance, and the _emit_changes flag. A call   *)
(* runs on m = [data, em, fired, exc]: em is _emit_changes, fired the log  *)
(* of the changed() calls on the dependency.                               *)
(***************************************************************************)
F_NoHooks == [beforeSet |-> "none", beforeUnset |-> "none",
              beforeEnable |-> "none", beforeDisable |-> "none"]

\* the argument {filters: {...}} is read as one filter named "filters", whose
\* configuration has no filter function: the read of spec[k].filter[name] throws
F_create(input) ==
    IF input.shape = "wrapped"
    THEN [impl |-> "flag", ok |-> FALSE, shape |-> input.shape]
    ELSE [impl |-> "flag",
          ok |-> TRUE,
          shape |-> input.shape,
          type |-> "null",
          names |-> KeySeq(input.items),
          spec |-> input.items]

F_emitChange(m) ==
    [m EXCEPT !.fired = IF m.em.status
                        THEN Append(@, [t |-> ROOT, status |-> m.em.status])
                        ELSE @,
              !.em.changed = TRUE]

F_stopEmittingChanges(m) ==
    [m EXCEPT !.em = [status |-> FALSE, changed |-> FALSE]]

F_restartEmittingChanges(m) ==
    IF m.em.status THEN m
    ELSE F_emitChange([m EXCEPT !.em.status = TRUE])

RECURSIVE F_set(_, _)

\* spec[key].beforeSet.call({name, filter}, value, callback): [m, value]
F_beforeSet(m, key, value) ==
    LET h == Get(cls.spec, key).beforeSet
    IN  CASE h = "low" ->
               [m |-> m, value |-> IF Less(value, Low) THEN Low ELSE value]
          [] h = "setOther" ->
               [m |-> F_set(m, <<<<Other(key), Num(2)>>>>), value |-> value]
          [] OTHER -> [m |-> m, value |-> value]

\* the body of set's forEach, for one key: [m, changed]
F_setItem(st, key, value) ==
    IF Threw(st.m) THEN st
    ELSE IF ~SpecHas(key) THEN [st EXCEPT !.m.exc = "no filter spec"]
    ELSE
      LET h   == F_beforeSet(st.m, key, value)
          has == Has(h.m.data, key)
          chg == IF has THEN Get(h.m.data, key).value # h.value ELSE TRUE
          en  == IF has THEN Get(h.m.data, key).enabled ELSE TRUE
          m1  == [h.m EXCEPT !.data = Put(@, key, [enabled |-> en, value |-> h.value])]
      IN  IF Threw(h.m) THEN [st EXCEPT !.m = h.m]
          ELSE [m |-> IF Filter(key, h.value).ok THEN m1
                      ELSE [m1 EXCEPT !.exc = "invalid value"],
                changed |-> st.changed \/ chg]

RECURSIVE F_setItems(_, _, _)
F_setItems(st, items, i) ==
    IF i > Len(items) THEN st
    ELSE F_setItems(F_setItem(st, items[i][1], items[i][2]), items, i + 1)

\* if (changed) this._emitChange(), unless a throw left the method
F_ifChanged(st) == IF ~Threw(st.m) /\ st.changed THEN F_emitChange(st.m) ELSE st.m

\* the end of set, enable and disable
F_finish(st) ==
    IF Threw(st.m) THEN st.m ELSE F_restartEmittingChanges(F_ifChanged(st))

F_set(m, items) ==
    F_finish(F_setItems([m |-> F_stopEmittingChanges(m), changed |-> FALSE], items, 1))

\* spec[k].beforeUnset.call({name, filter})
F_beforeUnset(m, key) ==
    LET h == Get(cls.spec, key).beforeUnset
    IN  CASE h = "setOther" -> F_set(m, <<<<Other(key), Num(1)>>>>)
          [] OTHER -> m

F_unsetItem(st, k) ==
    IF Threw(st.m) \/ ~Has(st.m.data, k) THEN st
    ELSE
      LET m1 == F_beforeUnset(st.m, k)
      IN  IF Threw(m1) THEN [st EXCEPT !.m = m1]
          ELSE [m |-> [m1 EXCEPT !.data = Del(@, k)], changed |-> TRUE]

RECURSIVE F_unsetItems(_, _, _)
F_unsetItems(st, ks, i) ==
    IF i > Len(ks) THEN st
    ELSE F_unsetItems(F_unsetItem(st, ks[i]), ks, i + 1)

F_unset(m, ks) == F_ifChanged(F_unsetItems([m |-> m, changed |-> FALSE], ks, 1))

\* clear(set): hasSet is whether a payload was passed
F_clear(m, hasSet, set) ==
    LET from == m.data
        m1   == [m EXCEPT !.data = <<>>]
        m2   == IF hasSet THEN F_set(m1, set) ELSE m1
    IN  F_ifChanged([m |-> m2, changed |-> ~ObjEquals(from, m2.data)])

F_reset(m, snap, hasSet, set) ==
    LET from == m.data
        m1   == [m EXCEPT !.data = snap]
        m2   == IF hasSet THEN F_set(m1, set) ELSE m1
    IN  F_ifChanged([m |-> m2, changed |-> ~ObjEquals(from, m2.data)])

\* spec[k].beforeEnable / beforeDisable .call({name, filter})
F_beforeFlag(m, k, to) ==
    LET h == IF to THEN Get(cls.spec, k).beforeEnable
                   ELSE Get(cls.spec, k).beforeDisable
    IN  CASE h = "setOther" -> F_set(m, <<<<Other(k), Num(2)>>>>)
          [] h = "setSelf" -> F_set(m, <<<<k, Num(2)>>>>)
          [] h = "unsetSelf" -> F_unset(m, <<k>>)
          [] OTHER -> m

\* already in the state asked for; for disable, an unset name is
F_flagIsSet(d, k, to) ==
    IF to THEN Has(d, k) /\ Get(d, k).enabled
          ELSE ~Has(d, k) \/ ~Get(d, k).enabled

\* the body of enable's (to = TRUE) and disable's (to = FALSE) forEach
F_flagItem(st, k, to) ==
    IF Threw(st.m) \/ F_flagIsSet(st.m.data, k, to) THEN st
    ELSE IF ~SpecHas(k) THEN [st EXCEPT !.m.exc = "TypeError"]
    ELSE
      LET m1 == F_beforeFlag(st.m, k, to)
      IN  IF Threw(m1) \/ F_flagIsSet(m1.data, k, to) THEN [st EXCEPT !.m = m1]
          ELSE IF ~Has(m1.data, k) THEN [st EXCEPT !.m = [m1 EXCEPT !.exc = "TypeError"]]
          ELSE [m |-> [m1 EXCEPT !.data = Put(@, k, [Get(@, k) EXCEPT !.enabled = to])],
                changed |-> TRUE]

RECURSIVE F_flagItems(_, _, _, _)
F_flagItems(st, ks, to, i) ==
    IF i > Len(ks) THEN st
    ELSE F_flagItems(F_flagItem(st, ks[i], to), ks, to, i + 1)

F_enable(m, ks) ==
    F_finish(F_flagItems([m |-> F_stopEmittingChanges(m), changed |-> FALSE], ks, TRUE, 1))

F_disable(m, ks) ==
    F_finish(F_flagItems([m |-> F_stopEmittingChanges(m), changed |-> FALSE], ks, FALSE, 1))

\* save(): the values of the enabled entries
RECURSIVE F_save(_)
F_save(d) ==
    IF d = <<>> THEN <<>>
    ELSE (IF d[1][2].enabled THEN <<<<d[1][1], d[1][2].value>>>> ELSE <<>>)
         \o F_save(Tail(d))

RECURSIVE F_queries(_, _, _)
F_queries(d, names, i) ==
    IF i > Len(names) THEN <<>>
    ELSE (IF Has(d, names[i]) /\ Get(d, names[i]).enabled
          THEN <<Filter(names[i], Get(d, names[i]).value)>>
          ELSE <<>>) \o F_queries(d, names, i + 1)

\* query(extra): [ok, q]; not ok when a converter threw
F_query(d, names, extra) ==
    LET rs == F_queries(d, names, 1)
    IN  IF \E i \in 1..Len(rs) : ~rs[i].ok
        THEN [ok |-> FALSE, q |-> NoQuery]
        ELSE [ok |-> TRUE,
              q |-> QueryMerge(extra \o [i \in 1..Len(rs) |-> rs[i].frag])]

F_newReset(set) ==
    [i \in 1..Len(set) |-> <<set[i][1], [enabled |-> TRUE, value |-> set[i][2]]>>]

\* new filter(set)
F_new(set) ==
    F_set([data |-> <<>>, em |-> [status |-> TRUE, changed |-> FALSE],
           fired |-> <<>>, exc |-> "none"], set)

(***************************************************************************)
(* SpecFlag: a class made by the Filter.create of unnamed/part_007, one    *)
(* instance of it, and the calls made on the instance.                     *)
(***************************************************************************)
F_HookSets == { F_NoHooks, [F_NoHooks EXCEPT !.beforeSet = "setOther"] }

F_Entries(hs) == <<<<MIN, hs>>, <<ADDED, F_NoHooks>>>>

F_CreateInputs ==
    { [shape |-> "wrapped", type |-> "null", items |-> F_Entries(F_NoHooks)] }
    \cup { [shape |-> "plain", type |-> "null", items |-> F_Entries(hs)] :
             hs \in F_HookSets }

F_SetInputs ==
    Singles \cup { <<<<MIN, Num(1)>>, <<ADDED, Num(1)>>>>, <<<<"Missing", Num(1)>>>> }

F_Payloads == { <<<<MIN, Num(1)>>>> }

InitFlag ==
    /\ MergeIdle
    /\ tracking = [paused |-> 0, queue |-> <<>>, trackers |-> {}]
    /\ \E input \in F_CreateInputs : cls = F_create(input)
    /\ IF cls.ok
       THEN \E set \in InitialSets :
              LET m == F_new(set)
              IN  /\ ~Threw(m)
                  /\ data = m.data
                  /\ emitc = m.em
                  /\ resetSnap = F_newReset(set)
                  /\ last = [op |-> "new", args |-> set, before |-> <<>>,
                             fired |-> <<>>, exc |-> "none", ret |-> <<>>]
       ELSE /\ data = <<>>
            /\ emitc = [status |-> TRUE, changed |-> FALSE]
            /\ resetSnap = <<>>
            /\ last = [op |-> "create", args |-> <<>>, before |-> <<>>,
                       fired |-> <<>>, exc |-> "TypeError", ret |-> <<>>]

\* the class was made by Filter.create of part_007, which did not throw
IsFlag == cls.impl = "flag" /\ cls.ok

F_Start == [data |-> data, em |-> emitc, fired |-> <<>>, exc |-> "none"]

F_Done(m, op, args) ==
    /\ IsFlag
    /\ data' = m.data
    /\ emitc' = m.em
    /\ last' = [op |-> op, args |-> args, before |-> data, fired |-> m.fired,
                exc |-> m.exc, ret |-> <<>>]
    /\ UNCHANGED <<cls, resetSnap, tracking, mergeVars>>

F_Returns(op, ret, exc) ==
    /\ IsFlag
    /\ last' = [op |-> op, args |-> <<>>, before |-> data, fired |-> <<>>,
                exc |-> exc, ret |-> ret]
    /\ UNCHANGED <<cls, data, resetSnap, tracking, emitc, mergeVars>>

F_Set == \E items \in F_SetInputs : F_Done(F_set(F_Start, items), "set", items)

F_Unset == \E ks \in NameLists : F_Done(F_unset(F_Start, ks), "unset", ks)

F_Clear ==
    \/ F_Done(F_clear(F_Start, FALSE, <<>>), "clear", <<>>)
    \/ \E set \in F_Payloads : F_Done(F_clear(F_Start, TRUE, set), "clear", set)

F_Reset ==
    \/ F_Done(F_reset(F_Start, resetSnap, FALSE, <<>>), "reset", <<>>)
    \/ \E set \in F_Payloads : F_Done(F_reset(F_Start, resetSnap, TRUE, set), "reset", set)

F_Enable == \E ks \in NameLists : F_Done(F_enable(F_Start, ks), "enable", ks)

F_Disable == \E ks \in NameLists : F_Done(F_disable(F_Start, ks), "disable", ks)

F_Save == F_Returns("save", F_save(data), "none")

F_Query ==
    LET r == F_query(data, cls.names, <<>>)
    IN  F_Returns("query", r.q, IF r.ok THEN "none" ELSE "invalid value")

NextFlag ==
    F_Set \/ F_Unset \/ F_Clear \/ F_Reset \/ F_Enable \/ F_Disable \/ F_Save \/ F_Query

SpecFlag == InitFlag /\ [][NextFlag]_vars

(***************************************************************************)
(* SpecFilter: an instance of a class of any of the three implementations. *)
(***************************************************************************)
InitFilter == InitTracker \/ InitEmitter \/ InitFlag

NextFilter == NextTracker \/ NextEmitter \/ NextFlag

SpecFilter == InitFilter /\ [][NextFilter]_vars

(***************************************************************************)
(* Claims on the merge (SpecMerge).                                        *)
(***************************************************************************)
\* the keys of the fragments before the i-th
KeysBefore(fs, i) == UNION { Keys(fs[j]) : j \in 1..(i - 1) }

\* some top-level key occurs in two fragments of the list
Collides(fs) == \E i \in 1..Len(fs) : Keys(fs[i]) \cap KeysBefore(fs, i) # {}

AllKeys(fs) == KeysBefore(fs, Len(fs) + 1)

\* the value of key k in the first fragment that has it
FirstVal(fs, k) == Get(fs[CHOOSE i \in 1..Len(fs) :
                          /\ k \in Keys(fs[i])
                          /\ k \notin KeysBefore(fs, i)], k)

\* how often fragment f occurs in the list l
Count(l, f) == Cardinality({ i \in 1..Len(l) : l[i] = f })

\* obj is the flat union of the fragments, the first value of each key kept
FlatUnion(obj, fs, ks) ==
    /\ Keys(obj) = ks
    /\ \A k \in ks : Get(obj, k) = FirstVal(fs, k)

RECURSIVE C10_Walk(_, _, _)
C10_Walk(st, fs, i) ==
    IF i > Len(fs) THEN st
    ELSE C10_Walk(
           IF \E k \in Keys(fs[i]) : QHas(st.q, k)
           THEN [st EXCEPT !.ov = Append(@, fs[i])]
           ELSE [st EXCEPT !.q.obj = @ \o fs[i]],
           fs, i + 1)

C10_Worded(fs) ==
    LET st == C10_Walk([q |-> [obj |-> <<>>, listed |-> TRUE, list |-> fs],
                        ov |-> <<>>], fs, 1)
    IN  [obj |-> st.q.obj, listed |-> st.ov # <<>>, list |-> st.ov]

\* C10 as stated: And returns the accumulator and overflow of that walk.
C10_WholeFragmentOnce ==
    out.andDone => QEquals(out.and, C10_Worded(frags))

\* C10 as amended: And drops no constraint. Every key other than $and that
\* some fragment has is in the result with the value of the first fragment
\* that has it; a fragment is pushed whole into the overflow once for each of
\* its keys that was already in the accumulator (the keys of the fragments
\* before it, and $and), its other keys still being copied flat, so a
\* fragment with one key is pushed at most once and then not copied; the
\* result has a $and list exactly when the overflow is not empty.
C10_NoConstraintDropped ==
    out.andDone =>
        /\ FlatUnion(out.and.obj, frags, AllKeys(frags) \ {AND})
        /\ \A i \in 1..Len(frags) :
             \/ Count(out.and.list, frags[i]) > 0
             \/ \A k \in Keys(frags[i]) :
                  Has(out.and.obj, k) /\ Get(out.and.obj, k) = Get(frags[i], k)
        /\ \A f \in Fragments :
             Count(out.and.list, f) =
               Cardinality({ <<i, k>> \in (1..Len(frags)) \X FragKeys :
                               /\ frags[i] = f
                               /\ k \in Keys(f)
                               /\ k \in KeysBefore(frags, i) \cup {AND} })
        /\ out.and.listed = (out.and.list # <<>>)

C10_Witness ==
    /\ out.andDone
    /\ \E i \in 1..Len(frags) :
         /\ Len(frags[i]) = 2
         /\ Count(out.and.list, frags[i]) = 1
         /\ \E k \in Keys(frags[i]) : k \notin KeysBefore(frags, i) \cup {AND}
    /\ \E i \in 1..Len(frags) :
         Len(frags[i]) = 1 /\ Count(out.and.list, frags[i]) = 1


(***************************************************************************)
(* Claims on the instance of Filter.create (SpecTracker).                  *)
(***************************************************************************)
\* the changed() calls of the last call that went to tracker t
FiredOf(l, t) == { i \in 1..Len(l.fired) : l.fired[i].t = t }

AtMostOncePerTracker(l) ==
    \A t \in Names \cup {ROOT} : Cardinality(FiredOf(l, t)) <= 1

\* every changed() was made by the _continueTracking that ends the outermost call
OnlyAtTheEnd(l) ==
    \A i \in 1..Len(l.fired) :
        l.fired[i].from = "continue" /\ l.fired[i].depth = 1

IsBatch(l) ==
    \/ l.op \in {"clear", "reset"}
    \/ l.op = "set" /\ Len(l.args) > 1

HookFree == \A i \in 1..Len(cls.spec) : cls.spec[i][2] = NoHooks

\* no hook of the class calls back into the instance
NoCallbackHooks ==
    \A i \in 1..Len(cls.spec) :
        /\ cls.spec[i][2].beforeSet \in {"none", "low"}
        /\ cls.spec[i][2].beforeUnset = "none"

\* C1 as stated: a batch call (set of several pairs, clear, reset, with or
\* without payload, hooks calling back included) fires nothing while it runs,
\* at most one notification per tracker, and one only if the state mapping
\* after the call differs from the one before it.
C1_BatchAtomic ==
    [][IsBatch(last') =>
         /\ OnlyAtTheEnd(last')
         /\ AtMostOncePerTracker(last')
         /\ (last'.fired # <<>> => ~ObjEquals(data, data'))]_vars

\* C1 witness: a batch call in a class whose hook calls back, ending with one
\* changed() per tracker touched, all made when the outermost call ended.
C1_Witness ==
    /\ IsTracker /\ ~NoCallbackHooks
    /\ IsBatch(last) /\ last.exc = "none"
    /\ Len(last.fired) = 3
    /\ OnlyAtTheEnd(last) /\ AtMostOncePerTracker(last)

IsPlainReset(l) == l.op = "reset" /\ l.args = <<>>

IsIdenticalSet(l) ==
    /\ l.op = "set" /\ Len(l.args) = 1
    /\ Has(l.before, l.args[1][1])
    /\ Get(l.before, l.args[1][1]).value = l.args[1][2]

\* C2 as stated: a set(name, v) with v deep-equal to the value stored for name
\* leaves the state unchanged and fires no change notification.
C2_IdenticalSetSilent ==
    (IsFlag /\ IsIdenticalSet(last)) =>
        /\ ObjEquals(data, last.before)
        /\ last.fired = <<>>

(***************************************************************************)
(* Claims on the EventEmitter instance (SpecEmitter).                      *)
(***************************************************************************)
Mutators == {"set", "unset", "enable", "disable", "clear", "reset"}

\* C3 as stated: a call of set, unset, enable, disable, clear or reset emits
\* 'change' at most once, and only if save() after the call differs from
\* save() before it; a change to a disabled entry emits nothing.
C3_EmitOnlyIfSaveChanged ==
    (IsEmitter /\ last.op \in Mutators) =>
        /\ Len(last.fired) <= 1
        /\ last.fired # <<>> => ~ObjEquals(E_save(data), E_save(last.before))

\* the field the converter of a filter constrains
FieldOf(name) == IF name = MIN THEN "price" ELSE "added"

\* the query document q constrains the field
Constrains(q, field) ==
    \/ Has(q.obj, field)
    \/ \E i \in 1..Len(q.list) : Has(q.list[i], field)

\* call l was op(name) made when name was set, with the enabled flag `en`
IsFlagCall(l, op, name, en) ==
    /\ l.op = op /\ l.args = <<name>>
    /\ Has(l.before, name) /\ Get(l.before, name).enabled = en

\* C6: disable(name) of a set, enabled name leaves save() without the name
\* and query() without the filter's fragment, get(name) still returning the
\* stored value; enable(name) right after it makes save() and query() what
\* they were before the disable.
C6_DisableThenEnable ==
    [][\A name \in Names :
         /\ (IsEmitter /\ IsFlagCall(last', "disable", name, TRUE)) =>
              /\ ~Has(E_save(data'), name)
              /\ E_query(data', cls.names, <<>>).ok =>
                   ~Constrains(E_query(data', cls.names, <<>>).q, FieldOf(name))
              /\ E_get(data', name) = Get(data, name).value
              /\ ~E_enabled(data', name)
         /\ (/\ IsEmitter
             /\ IsFlagCall(last, "disable", name, TRUE)
             /\ IsFlagCall(last', "enable", name, FALSE)) =>
              /\ ObjEquals(E_save(data'), E_save(last.before))
              /\ E_save(data') = E_save(last.before)
              /\ E_query(data', cls.names, <<>>) = E_query(last.before, cls.names, <<>>)
      ]_vars

\* an enable(MinPrice) of the disabled MinPrice, after which save() has it
\* again and query() constrains price again
C6_Witness ==
    /\ IsEmitter
    /\ IsFlagCall(last, "enable", MIN, FALSE)
    /\ Len(last.before) = 2
    /\ Has(E_save(data), MIN) /\ ~Has(E_save(last.before), MIN)
    /\ E_query(data, cls.names, <<>>).ok
    /\ Constrains(E_query(data, cls.names, <<>>).q, "price")
    /\ ~Constrains(E_query(last.before, cls.names, <<>>).q, "price")

(***************************************************************************)
(* Claims on the instances of all three implementations (SpecFilter).      *)
(***************************************************************************)
\* the call record for a second call on the same instance
T_Again(m) == [m EXCEPT !.fired = <<>>, !.touched = {}]

\* clear() and then clear() again, from the current state: [first, second]
ClearTwice ==
    CASE cls.impl = "tracker" ->
           LET m1 == T_clear(Start, <<>>)
           IN  [first |-> m1, second |-> T_clear(T_Again(m1), <<>>)]
      [] cls.impl = "flag" ->
           LET m1 == F_clear(F_Start, FALSE, <<>>)
           IN  [first |-> m1,
                second |-> F_clear([m1 EXCEPT !.fired = <<>>], FALSE, <<>>)]
      [] OTHER ->
           LET m1 == E_clear(E_Start)
           IN  [first |-> m1, second |-> E_clear([m1 EXCEPT !.fired = <<>>])]

ClearIsIdempotent ==
    /\ ClearTwice.first.data = <<>>
    /\ ClearTwice.second.data = <<>>
    /\ ClearTwice.first.fired # <<>> => data # <<>>
    /\ ClearTwice.second.fired = <<>>

\* no filter of the class has a beforeUnset hook
NoUnsetHooks ==
    \A i \in 1..Len(cls.spec) : cls.spec[i][2].beforeUnset = "none"

\* C5 as stated: from any reachable state clear() leaves the empty state, a
\* second clear() leaves it empty, the first fires a notification only if the
\* state was not empty and the second fires none.
C5_ClearIdempotent == cls.ok => ClearIsIdempotent

\* C5 as amended: the same, in Filter.js's Filter.create only for a class of
\* which no filter has a beforeUnset hook (the hook may set a filter while the
\* clear runs); in the EventEmitter implementation and in part_007, where
\* clear() runs no hook, for every class.
C5_ClearIdempotentNoUnsetHook ==
    (cls.ok /\ (IsTracker => NoUnsetHooks)) => ClearIsIdempotent

\* a clear() of a non-empty state that fired, in each implementation
C5_Witness ==
    /\ IsTracker /\ NoUnsetHooks
    /\ last.op = "clear" /\ last.args = <<>>
    /\ Len(last.fired) = 3
    /\ data = <<>>
    /\ ClearTwice.first.fired = <<>>

\* what C8 says of the instance made with {n: v}
NewSavesAndQueries(save, query) ==
    Len(last.args) = 1 =>
        /\ save = last.args
        /\ query = [ok |-> TRUE,
                    q |-> [obj |-> Filter(last.args[1][1], last.args[1][2]).frag,
                           listed |-> FALSE, list |-> <<>>]]

\* C8 as stated: Filter.create accepts a plain mapping {n: c}, and for the
\* instance made with {n: v} query() is c(v) and save() is {n: v}.
C8_PlainMappingAccepted ==
    (cls.impl \in {"tracker", "flag"} /\ cls.shape = "plain") =>
        /\ cls.ok
        /\ (last.op = "new" /\ IsTracker) =>
             NewSavesAndQueries(T_save(data), T_query(data, <<>>))
        /\ (last.op = "new" /\ IsFlag) =>
             NewSavesAndQueries(F_save(data), F_query(data, cls.names, <<>>))

\* C8 as amended: the Filter.create of Filter.js throws "Missing filter
\* definitions" for a plain mapping and takes the mapping under a `filters`
\* key; the Filter.create of part_007 takes the plain mapping. For a class so
\* made from converters without hooks and the instance made with {n: v},
\* query() is c(v) and save() is {n: v}.
C8_CreateTakesFiltersKey ==
    /\ (cls.impl = "tracker" /\ cls.shape = "plain") => ~cls.ok
    /\ (cls.impl = "tracker" /\ cls.shape = "wrapped") =>
         /\ cls.ok
         /\ (last.op = "new" /\ HookFree) =>
              NewSavesAndQueries(T_save(data), T_query(data, <<>>))
    /\ (cls.impl = "flag" /\ cls.shape = "plain") =>
         /\ cls.ok
         /\ (last.op = "new" /\ cls.spec = F_Entries(F_NoHooks)) =>
              NewSavesAndQueries(F_save(data), F_query(data, cls.names, <<>>))

\* query() called on the instance a wrapped {MinPrice: Gte('price')} class
\* made with {MinPrice: 1}
C8_Witness ==
    /\ IsTracker /\ cls.shape = "wrapped" /\ HookFree
    /\ last.op = "query" /\ last.exc = "none"
    /\ resetSnap = T_newReset(<<<<MIN, Num(1)>>>>)
    /\ T_save(data) = <<<<MIN, Num(1)>>>>
    /\ last.ret = [obj |-> <<<<"price", [op |-> "$gte", v |-> 1]>>>>,
                   listed |-> FALSE, list |-> <<>>]

(***************************************************************************)
(* filters/core.js: Filter.Or over a list, and fixupOr.                    *)
(* The list form hands the caller's own array to fixupOr, which moves the  *)
(* keys out of its only fragment, so frags is what the array holds after   *)
(* the call.                                                               *)
(***************************************************************************)
OR == "$or"

\* the query fixupOr works on, { $or: queries }, owns the key $or
OrOwnsNothingMutant(promoted, k) == Has(promoted, k)

OrOwns(promoted, k) == k = OR \/ Has(promoted, k)

\* one key k of the only fragment, inside the forEach
FixupOrKey(st, k) ==
    IF OrOwns(st.promoted, k)
    THEN st
    ELSE [promoted |-> Put(st.promoted, k, Get(st.frag, k)),
          frag     |-> Del(st.frag, k)]

RECURSIVE FixupOrWalk(_, _, _)
FixupOrWalk(st, ks, i) ==
    IF i > Len(ks) THEN st
    ELSE FixupOrWalk(FixupOrKey(st, ks[i]), ks, i + 1)

\* [threw, q, list]: the document returned and the array as it is left
fixupOr(queries) ==
    IF Len(queries) > 1
    THEN [threw |-> FALSE, list |-> queries,
          q |-> [obj |-> <<>>, listed |-> TRUE, list |-> queries]]
    ELSE IF Len(queries) = 0
    THEN [threw |-> TRUE, list |-> queries, q |-> NoQuery]
    ELSE LET st == FixupOrWalk([promoted |-> <<>>, frag |-> queries[1]],
                               KeySeq(queries[1]), 1)
         IN  IF st.frag = <<>>
             THEN [threw |-> FALSE, list |-> <<st.frag>>,
                   q |-> [obj |-> st.promoted, listed |-> FALSE, list |-> <<>>]]
             ELSE [threw |-> FALSE, list |-> <<st.frag>>,
                   q |-> [obj |-> st.promoted, listed |-> TRUE, list |-> <<st.frag>>]]

\* Filter.Or(list)()
Or(filters) == fixupOr(filters)

(***************************************************************************)
(* SpecOr: a list of fragments, some with a $or key of their own, behind   *)
(* an Or converter that is called again and again.                         *)
(***************************************************************************)
OrFragments ==
    { <<<<k, v>>>> : k \in {"f1", "f2", OR}, v \in FragVals }
    \cup { <<<<k[1], v>>, <<k[2], v>>>> :
             k \in {kk \in {"f1", "f2", OR} \X {"f1", "f2", OR} : kk[1] # kk[2]},
             v \in FragVals }

InitOr ==
    /\ frags \in UNION { [1..n -> OrFragments] : n \in 0..MaxFrags }
    /\ out = [orDone |-> FALSE, given |-> <<>>, threw |-> FALSE, or |-> NoQuery]
    /\ InstIdle

ApplyOr ==
    /\ out' = [orDone |-> TRUE, given |-> frags,
               threw |-> Or(frags).threw, or |-> Or(frags).q]
    /\ frags' = Or(frags).list
    /\ UNCHANGED instVars

NextOr == ApplyOr

SpecOr == InitOr /\ [][NextOr]_vars

(***************************************************************************)
(* Or-minimization.                                                        *)
(***************************************************************************)
OrReturned == out.orDone /\ ~out.threw

\* Claim C11 as worded: a list of exactly one fragment gives that fragment's
\* keys at the top level and no $or key, whatever the fragment; a list of
\* two or more fragments gives { $or: list } in the order of the list.
C11_OrMinimized ==
    OrReturned =>
        /\ Len(out.given) = 1 =>
               /\ ~out.or.listed
               /\ ObjEquals(out.or.obj, out.given[1])
        /\ Len(out.given) > 1 =>
               out.or = [obj |-> <<>>, listed |-> TRUE, list |-> out.given]

\* Claim C11, amended: of a list of exactly one fragment the keys other than
\* $or are promoted to the top level and taken out of the fragment; $or is
\* dropped exactly when the fragment had no $or key, and otherwise stays as
\* the list holding what is left of the fragment, its own $or; a list of two
\* or more fragments gives { $or: list } in the order of the list.
C11_OrMinimizedButOwnOr ==
    OrReturned =>
        /\ Len(out.given) = 1 =>
               /\ ObjEquals(out.or.obj, Del(out.given[1], OR))
               /\ out.or.listed = Has(out.given[1], OR)
               /\ out.or.listed =>
                      out.or.list = <<<<<<OR, Get(out.given[1], OR)>>>>>>
               /\ frags = <<SelectSeq(out.given[1], LAMBDA p : p[1] = OR)>>
        /\ Len(out.given) > 1 =>
               /\ out.or = [obj |-> <<>>, listed |-> TRUE, list |-> out.given]
               /\ frags = out.given

\* a single fragment with a field and a $or key has been minimized
C11_Witness ==
    /\ OrReturned
    /\ out.given = <<<<<<"f1", 1>>, <<OR, 1>>>>>>
    /\ out.or = [obj |-> <<<<"f1", 1>>>>, listed |-> TRUE,
                 list |-> <<<<<<OR, 1>>>>>>]

(***************************************************************************)
(* filters/core.js: fixupRegex, Filter.Regex and Filter.Not.               *)
(* A string is the sequence of its characters; a regular expression is its *)
(* source and its flags, the flags in the order the engine prints them.    *)
(***************************************************************************)
Text(s) == [t |-> "text", s |-> s]
RegExp(src, flags) == [t |-> "regexp", src |-> src, flags |-> flags]
Null == [t |-> "null"]
Obj(o) == [t |-> "object", o |-> o]
Fn(name) == [t |-> "function", name |-> name, negated |-> FALSE]

REGEX == "$regex"
OPTIONS == "$options"
WHERE == "$where"

FlagLetters == <<"g", "i", "m">>
Digits == <<"0", "1", "2", "3", "4", "5", "6", "7", "8", "9">>

\* String(n), for one digit
String(n) == <<Digits[n + 1]>>

\* the truthiness of a value, as `!v` and `if (v)` test it
Truthy(v) ==
    CASE v.t = "number" -> v.v # 0
      [] v.t = "text" -> v.s # <<>>
      [] v.t \in {"undefined", "null"} -> FALSE
      [] OTHER -> TRUE

\* o.k of an object, undefined when the key is absent
Prop(o, k) == IF Has(o, k) THEN Get(o, k) ELSE Undefined

\* Object.keys(options.split('').reduce(...)): each letter once, first come first
RECURSIVE Dedupe(_)
Dedupe(s) ==
    IF s = <<>> THEN <<>>
    ELSE LET r == Dedupe(SubSeq(s, 1, Len(s) - 1))
         IN  IF \E i \in 1..Len(r) : r[i] = s[Len(s)] THEN r ELSE Append(r, s[Len(s)])

\* .sort() of letters
RECURSIVE SortFrom(_, _)
SortFrom(s, i) ==
    IF i > Len(FlagLetters) THEN <<>>
    ELSE SelectSeq(s, LAMBDA c : c = FlagLetters[i]) \o SortFrom(s, i + 1)

Sort(s) == SortFrom(s, 1)

\* new RegExp(src, flags): a flag given twice is a SyntaxError
NewRegExp(src, flags) ==
    IF \E i, j \in 1..Len(flags) : i # j /\ flags[i] = flags[j]
    THEN [threw |-> TRUE, v |-> Undefined]
    ELSE [threw |-> FALSE, v |-> RegExp(src, Sort(flags))]

\* options = mat[2] + options, then each letter once, sorted
JoinFlags(f1, f2) == Sort(Dedupe(f1 \o f2))

\* [threw, v]
fixupRegex(query) ==
    IF ~Truthy(Prop(query, REGEX)) THEN [threw |-> FALSE, v |-> Obj(query)]
    ELSE IF \E k \in Keys(query) : k # REGEX /\ k # OPTIONS
    THEN [threw |-> FALSE, v |-> Obj(query)]
    ELSE LET given   == Prop(query, REGEX)
             options == Prop(query, OPTIONS)
             regex   == IF given.t = "number" THEN Text(String(given.v)) ELSE given
         IN  IF Truthy(options)
             THEN IF regex.t = "text"
                  THEN NewRegExp(regex.s, options.s)
                  ELSE NewRegExp(regex.src, JoinFlags(regex.flags, options.s))
             ELSE IF regex.t = "text"
                  THEN NewRegExp(regex.s, <<>>)
                  ELSE [threw |-> FALSE, v |-> regex]

\* Filter.Regex(field, regex, options)(): [threw, frag]
Regex(field, regex, options) ==
    IF \/ regex.t \notin {"text", "number", "regexp"}
       \/ options.t \notin {"undefined", "text", "null"}
    THEN [threw |-> TRUE, frag |-> <<>>]
    ELSE LET r == fixupRegex(<<<<REGEX, regex>>, <<OPTIONS, options>>>>)
         IN  [threw |-> r.threw,
              frag  |-> IF r.threw THEN <<>> ELSE <<<<field, r.v>>>>]

\* every value that is not a regular expression is wrapped in $eq
NotValueWrapsObjectsMutant(v) ==
    IF v.t = "regexp" THEN [threw |-> FALSE, v |-> v]
    ELSE IF v.t = "object" /\ Truthy(Prop(v.o, REGEX)) THEN fixupRegex(v.o)
    ELSE [threw |-> FALSE, v |-> Obj(<<<<"$eq", v>>>>)]

\* the value v of one key, inside Not's forEach: [threw, v]
NotValue(v) ==
    IF v.t = "regexp" THEN [threw |-> FALSE, v |-> v]
    ELSE IF v.t = "object"
    THEN IF Truthy(Prop(v.o, REGEX)) THEN fixupRegex(v.o)
                                     ELSE [threw |-> FALSE, v |-> v]
    ELSE [threw |-> FALSE, v |-> Obj(<<<<"$eq", v>>>>)]

\* Filter.Not(func)(value), selector being what func(value) returned
Not(selector) ==
    IF Truthy(Prop(selector, WHERE))
    THEN [threw |-> FALSE,
          sel   |-> <<<<WHERE, [Get(selector, WHERE) EXCEPT !.negated = TRUE]>>>>]
    ELSE [threw |-> \E i \in 1..Len(selector) : NotValue(selector[i][2]).threw,
          sel   |-> [i \in 1..Len(selector) |->
                        <<selector[i][1],
                          Obj(<<<<"$not", NotValue(selector[i][2]).v>>>>)>>]]

(***************************************************************************)
(* SpecNot: the fragment some converter returns, negated by Not.           *)
(***************************************************************************)
Patterns ==
    {Text(<<"x">>), Text(<<>>), Num(0), Num(7),
     RegExp(<<"x">>, <<>>), RegExp(<<"x">>, <<"i">>), RegExp(<<"x">>, <<"g", "i">>)}

OptionValues ==
    {Undefined, Null, Text(<<>>), Text(<<"i">>), Text(<<"g">>),
     Text(<<"g", "i">>), Text(<<"i", "g">>), Text(<<"i", "i">>)}

SelectorValues ==
    {Num(3), Num(0), Text(<<"x">>), Null, Undefined, RegExp(<<"x">>, <<"i">>),
     Obj(<<<<REGEX, Text(<<"x">>)>>, <<OPTIONS, Text(<<"i">>)>>>>),
     Obj(<<<<REGEX, RegExp(<<"x">>, <<"g">>)>>>>),
     Obj(<<<<REGEX, RegExp(<<"x">>, <<"i">>)>>, <<OPTIONS, Text(<<"g">>)>>>>),
     Obj(<<<<REGEX, RegExp(<<"x">>, <<>>)>>, <<"$eq", Text(<<"x">>)>>>>),
     Obj(<<<<REGEX, Num(0)>>>>),
     Obj(<<<<OPTIONS, Text(<<"i">>)>>>>),
     Obj(<<<<"$gte", Num(3)>>>>)}

Selectors ==
    { <<<<"field", v>>>> : v \in SelectorValues }
    \cup { <<<<"field", v>>, <<"other", w>>>> : v \in SelectorValues, w \in SelectorValues }
    \cup { <<<<WHERE, Fn("pred")>>>>, <<<<WHERE, Fn("pred")>>, <<"field", Num(3)>>>> }

InitNot ==
    /\ frags \in Selectors
    /\ out = [notDone |-> FALSE, threw |-> FALSE, sel |-> <<>>]
    /\ InstIdle

ApplyNot ==
    /\ out' = [notDone |-> TRUE, threw |-> Not(frags).threw, sel |-> Not(frags).sel]
    /\ UNCHANGED <<frags, instVars>>

NextNot == ApplyNot

SpecNot == InitNot /\ [][NextNot]_vars

(***************************************************************************)
(* SpecRegex: an object with a $regex key, compacted by fixupRegex, or its *)
(* pattern and options handed to Filter.Regex.                             *)
(***************************************************************************)
RegexObjects ==
    { <<<<REGEX, p>>>> : p \in Patterns }
    \cup { <<<<REGEX, p>>, <<OPTIONS, o>>>> : p \in Patterns, o \in OptionValues }
    \cup { <<<<REGEX, p>>, <<"$eq", Text(<<"x">>)>>>> : p \in Patterns }

InitRegex ==
    /\ frags \in RegexObjects
    /\ out = [via |-> "none", threw |-> FALSE, v |-> Undefined]
    /\ InstIdle

ApplyFixupRegex ==
    /\ out' = [via |-> "fixupRegex", threw |-> fixupRegex(frags).threw,
               v |-> fixupRegex(frags).v]
    /\ UNCHANGED <<frags, instVars>>

ApplyRegex ==
    /\ Keys(frags) \subseteq {REGEX, OPTIONS}
    /\ LET r == Regex("field", Prop(frags, REGEX), Prop(frags, OPTIONS))
       IN  out' = [via |-> "Regex", threw |-> r.threw,
                   v |-> IF r.threw THEN Undefined ELSE r.frag[1][2]]
    /\ UNCHANGED <<frags, instVars>>

NextRegex == ApplyFixupRegex \/ ApplyRegex

SpecRegex == InitRegex /\ [][NextRegex]_vars

(***************************************************************************)
(* The negation rewrite.                                                   *)
(***************************************************************************)
OnlyRegexKeys(v) == v.t = "object" /\ Keys(v.o) \subseteq {REGEX, OPTIONS}

Negated(i) == Get(out.sel[i][2].o, "$not")

NotRewrote ==
    /\ out.notDone
    /\ ~out.threw
    /\ ~Has(frags, WHERE)

\* Claim C12 as worded: Not replaces the value x of each top-level key by
\* {$not: X}, where X is x for a regular expression, the compacted regular
\* expression for an object with only $regex/$options keys, and {$eq: x} for
\* every other value, scalar or object.
C12_NotWrapsEveryOther ==
    NotRewrote =>
        /\ KeySeq(out.sel) = KeySeq(frags)
        /\ \A i \in 1..Len(frags) :
               LET x == frags[i][2]
               IN  /\ Keys(out.sel[i][2].o) = {"$not"}
                   /\ x.t = "regexp" => Negated(i) = x
                   /\ OnlyRegexKeys(x) => Negated(i).t = "regexp"
                   /\ x.t # "regexp" /\ ~OnlyRegexKeys(x) =>
                          Negated(i) = Obj(<<<<"$eq", x>>>>)

\* Claim C12, amended: Not replaces the value x of each top-level key by
\* {$not: X}, where X is x for a regular expression; for an object x, the
\* regular expression with the source and the united flags of its $regex
\* and $options when it has a truthy $regex and no other key, and x itself
\* otherwise; and {$eq: x} for a value that is not an object.  A fragment
\* with a $where predicate becomes the one key $where, negated.
C12_NotWrapsScalars ==
    /\ NotRewrote =>
        /\ KeySeq(out.sel) = KeySeq(frags)
        /\ \A i \in 1..Len(frags) :
               LET x == frags[i][2]
                   compacts == OnlyRegexKeys(x) /\ Truthy(Prop(x.o, REGEX))
               IN  /\ Keys(out.sel[i][2].o) = {"$not"}
                   /\ x.t = "regexp" => Negated(i) = x
                   /\ x.t = "object" /\ compacts =>
                          /\ Negated(i).t = "regexp"
                          /\ Negated(i).src = <<"x">>
                          /\ \A c \in {"g", "i", "m"} :
                                 (\E j \in 1..Len(Negated(i).flags) : Negated(i).flags[j] = c)
                                 <=> \/ /\ Get(x.o, REGEX).t = "regexp"
                                        /\ \E j \in 1..Len(Get(x.o, REGEX).flags) :
                                               Get(x.o, REGEX).flags[j] = c
                                     \/ /\ Has(x.o, OPTIONS)
                                        /\ \E j \in 1..Len(Get(x.o, OPTIONS).s) :
                                               Get(x.o, OPTIONS).s[j] = c
                   /\ x.t = "object" /\ ~compacts => Negated(i) = x
                   /\ x.t \notin {"regexp", "object"} =>
                          Negated(i) = Obj(<<<<"$eq", x>>>>)
    /\ out.notDone /\ Has(frags, WHERE) =>
           out.sel = <<<<WHERE, [t |-> "function", name |-> "pred", negated |-> TRUE]>>>>

\* Not has rewritten a fragment with an operator object and a scalar
C12_Witness ==
    /\ NotRewrote
    /\ frags = <<<<"field", Obj(<<<<"$gte", Num(3)>>>>)>>, <<"other", Num(3)>>>>
    /\ out.sel = <<<<"field", Obj(<<<<"$not", Obj(<<<<"$gte", Num(3)>>>>)>>>>)>>,
                   <<"other", Obj(<<<<"$not", Obj(<<<<"$eq", Num(3)>>>>)>>>>)>>>>

(***************************************************************************)
(* Regex-literal compaction.                                               *)
(***************************************************************************)
FlagSet(s) == { s[i] : i \in 1..Len(s) }

FlagRank(c) == CHOOSE i \in 1..Len(FlagLetters) : FlagLetters[i] = c

EachOnceSorted(s) == \A i, j \in 1..Len(s) : i < j => FlagRank(s[i]) < FlagRank(s[j])

Compacted == out.via # "none" /\ Keys(frags) \subseteq {REGEX, OPTIONS}

\* Claim C13 as worded: an object whose only keys are $regex/$options always
\* collapses to one regular expression; a numeric pattern, 0 included, is
\* stringified first; a regex pattern with flags F1 and an options string
\* with flags F2 give the pattern's source with exactly the flags of
\* F1 union F2, each once, in sorted order.
C13_RegexAlwaysCollapses ==
    Compacted =>
        LET p == Get(frags, REGEX)
            o == Prop(frags, OPTIONS)
        IN  /\ ~out.threw
            /\ out.v.t = "regexp"
            /\ p.t = "number" => out.v.src = String(p.v)
            /\ p.t = "regexp" /\ o.t = "text" =>
                   /\ out.v.src = p.src
                   /\ FlagSet(out.v.flags) = FlagSet(p.flags) \cup FlagSet(o.s)
                   /\ EachOnceSorted(out.v.flags)

\* Filter.Regex('field', 0)() has returned its pattern and options uncompacted
C13_Witness ==
    /\ out.via = "Regex"
    /\ frags = <<<<REGEX, Num(0)>>, <<OPTIONS, Undefined>>>>
    /\ ~out.threw
    /\ out.v = Obj(<<<<REGEX, Num(0)>>, <<OPTIONS, Undefined>>>>)

(***************************************************************************)
(* The current state only has names of the specification.                  *)
(***************************************************************************)
UnknownNames(items) ==
    { items[i][1] : i \in {j \in 1..Len(items) : ~Has(cls.spec, items[j][1])} }

\* Claim C14: in every reachable state of an instance every entry of the
\* current state belongs to a name of the specification, and a set that names
\* a filter the specification does not have throws and leaves no entry for
\* that name.
C14_EntriesInSpec ==
    cls.ok =>
        /\ \A k \in Keys(data) : Has(cls.spec, k)
        /\ (last.op = "set" /\ UnknownNames(last.args) # {}) =>
               /\ last.exc = "no filter spec"
               /\ \A k \in UnknownNames(last.args) : ~Has(data, k)

\* a set of a name the specification does not have, on an instance of
\* Filter.create that has values, has thrown
C14_Witness ==
    /\ IsTracker
    /\ last.op = "set"
    /\ UnknownNames(last.args) = {"Missing"}
    /\ last.exc = "no filter spec"
    /\ Keys(data) = {MIN, ADDED}

(***************************************************************************)
(* Eager validation.                                                       *)
(***************************************************************************)
\* the last call was set(name, v) with a value v the converter of name rejects
IsRejectedSet ==
    /\ IsTracker
    /\ last.op = "set"
    /\ Len(last.args) = 1
    /\ SpecHas(last.args[1][1])
    /\ ~Filter(last.args[1][1], last.args[1][2]).ok

\* Claim C15 as worded: every set(name, v) with a value v that the converter
\* of name rejects throws inside that call, in any state of the instance,
\* also when the same value was passed to an earlier call that threw; and
\* constructing an instance with such an initial value throws.
C15_ValidationEager ==
    /\ (IsRejectedSet /\ HookFree) => last.exc = "invalid value"
    /\ IsTracker =>
           \A n \in Names, v \in Values :
               ~Filter(n, v).ok => T_new(<<<<n, v>>>>).exc = "invalid value"

\* a set of the value an earlier set was rejected for has returned, the value
\* stored
C15_Witness ==
    /\ IsRejectedSet
    /\ HookFree
    /\ last.exc = "none"
    /\ last.args = <<<<MIN, Word>>>>
    /\ StoredValue(data, MIN) = Word

(***************************************************************************)
(* Filter.js, filter.prototype.clone.                                      *)
(* SpecClone: an instance of a class made by Filter.create and the clone   *)
(* made of it; out is the clone, [made, data, reset, tr], its _reset the   *)
(* object the original's _reset is.                                        *)
(***************************************************************************)
\* set = payload, then the names of save() the payload does not have
T_cloneSet(set, cur) == set \o SelectSeq(cur, LAMBDA p : ~Has(set, p[1]))

\* the clone keeps the _reset its constructor made
T_cloneOwnResetMutant(d, snap, set) ==
    LET f == T_new(T_cloneSet(set, T_save(d)))
    IN  [made |-> ~Threw(f), data |-> f.data,
         reset |-> T_newReset(T_cloneSet(set, T_save(d))), tr |-> f.tr, exc |-> f.exc]

\* clone(set) of the instance with _data d and _reset snap
T_clone(d, snap, set) ==
    LET f == T_new(T_cloneSet(set, T_save(d)))
    IN  [made |-> ~Threw(f), data |-> f.data, reset |-> snap, tr |-> f.tr, exc |-> f.exc]

NoTwin == [made |-> FALSE, data |-> <<>>, reset |-> <<>>,
           tr |-> [paused |-> 0, queue |-> <<>>, trackers |-> {}]]

CloneHookSets == { NoHooks, [beforeSet |-> "low", beforeUnset |-> "none"] }

CloneSets ==
    { <<<<MIN, Num(1)>>>>, <<<<MIN, Num(2)>>>>, <<<<MIN, Word>>>>, <<<<ADDED, Num(1)>>>> }

ClonePayloads == { <<>>, <<<<MIN, Num(1)>>>>, <<<<ADDED, Num(2)>>>> }

InitClone ==
    /\ frags = <<>>
    /\ out = NoTwin
    /\ emitc = [status |-> TRUE, changed |-> FALSE]
    /\ \E hs \in CloneHookSets :
         cls = T_create([shape |-> "wrapped", type |-> "Product", items |-> Entries(hs)])
    /\ \E set \in InitialSets :
         /\ data = T_new(set).data
         /\ resetSnap = T_newReset(set)
         /\ tracking = T_new(set).tr
         /\ last = [op |-> "new", on |-> "original", args |-> set, exc |-> "none"]

\* the instance a call runs on: the original or its clone
StartOn(who) ==
    [data |-> IF who = "clone" THEN out.data ELSE data,
     tr   |-> IF who = "clone" THEN out.tr ELSE tracking,
     fired |-> <<>>, touched |-> {}, depth |-> 0, exc |-> "none"]

ResetOf(who) == IF who = "clone" THEN out.reset ELSE resetSnap

\* the instance `who` after a call on it that ran to m
C_Done(who, m, op, args) ==
    /\ who = "clone" => out.made
    /\ m.tr.paused <= MaxPaused
    /\ last' = [op |-> op, on |-> who, args |-> args, exc |-> m.exc]
    /\ IF who = "clone"
       THEN /\ out' = [out EXCEPT !.data = m.data, !.tr = m.tr]
            /\ UNCHANGED <<data, tracking>>
       ELSE /\ data' = m.data
            /\ tracking' = m.tr
            /\ UNCHANGED out
    /\ UNCHANGED <<frags, cls, resetSnap, emitc>>

C_Set ==
    \E who \in {"original", "clone"}, items \in CloneSets :
        C_Done(who, T_set(StartOn(who), items), "set", items)

C_Unset ==
    \E who \in {"original", "clone"}, ks \in {<<MIN>>, <<ADDED>>} :
        C_Done(who, T_unset(StartOn(who), ks), "unset", ks)

C_Clear ==
    \E who \in {"original", "clone"} :
        C_Done(who, T_clear(StartOn(who), <<>>), "clear", <<>>)

C_Reset ==
    \E who \in {"original", "clone"} :
        C_Done(who, T_reset(StartOn(who), ResetOf(who), <<>>), "reset", <<>>)

\* clone(set) on the original: save() registers the root dependency
C_Clone ==
    /\ ~out.made
    /\ \E set \in ClonePayloads :
         LET f == T_clone(data, resetSnap, set)
         IN  /\ out' = IF f.made
                       THEN [made |-> TRUE, data |-> f.data, reset |-> f.reset, tr |-> f.tr]
                       ELSE out
             /\ last' = [op |-> "clone", on |-> "original", args |-> set, exc |-> f.exc]
    /\ tracking' = T_trackDepend(tracking, ROOT)
    /\ UNCHANGED <<frags, cls, data, resetSnap, emitc>>

NextClone == C_Set \/ C_Unset \/ C_Clear \/ C_Reset \/ C_Clone

SpecClone == InitClone /\ [][NextClone]_vars

(***************************************************************************)
(* The clone.                                                              *)
(***************************************************************************)
\* save() with the payload laid over it
RECURSIVE Overlaid(_, _, _)
Overlaid(o, set, i) ==
    IF i > Len(set) THEN o
    ELSE Overlaid(Put(o, set[i][1], set[i][2]), set, i + 1)

Rejected(o) == \E i \in 1..Len(o) : ~Filter(o[i][1], o[i][2]).ok

\* a call on one instance leaves the other as it was
Independent ==
    /\ (last'.on = "clone" /\ last' # last) =>
           data' = data /\ tracking' = tracking /\ resetSnap' = resetSnap
    /\ (last'.on = "original" /\ last'.op # "clone" /\ last' # last) => out' = out

\* Claim C16 as worded: clone(payload) returns an instance whose values are
\* save() with the payload laid over it, whose baseline is the original's,
\* so that reset() on the clone restores the original's construction-time
\* values, and whose state is independent of the original's.
C16_CloneOverlaysSave ==
    /\ [](last.op = "clone" =>
            /\ out.made
            /\ ObjEquals(T_save(out.data), Overlaid(T_save(data), last.args, 1))
            /\ out.reset = resetSnap)
    /\ []((last.op = "reset" /\ last.on = "clone") => ObjEquals(out.data, resetSnap))
    /\ [][Independent]_vars

\* Claim C16, amended: clone(payload) builds the clone by constructing an
\* instance from save() with the payload laid over it, so it throws when one
\* of these values is rejected by its converter (a value a failed set left in
\* the original included).  When the class has no hooks, the clone has
\* exactly these values, and a reset() on it that returns restores the values
\* the original was constructed with.  The clone's baseline is the
\* original's, and a later call on one of the two instances does not change
\* the other.
C16_CloneOverlaysSaveHookFree ==
    /\ [](last.op = "clone" =>
            /\ out.made <=> last.exc = "none"
            /\ HookFree =>
                 (out.made <=> ~Rejected(Overlaid(T_save(data), last.args, 1)))
            /\ (out.made /\ HookFree) =>
                 ObjEquals(T_save(out.data), Overlaid(T_save(data), last.args, 1))
            /\ out.made => out.reset = resetSnap)
    /\ []((last.op = "reset" /\ last.on = "clone" /\ last.exc = "none" /\ HookFree) =>
            ObjEquals(out.data, resetSnap))
    /\ [][Independent]_vars

\* a clone made with a payload of an original that had another value, then
\* changed while the original kept its own
C16_Witness ==
    /\ HookFree
    /\ out.made
    /\ last.op = "set" /\ last.on = "clone" /\ last.exc = "none"
    /\ T_save(out.data) = <<<<ADDED, Num(1)>>, <<MIN, Num(2)>>>>
    /\ T_save(data) = <<<<MIN, Num(1)>>>>
    /\ out.reset = resetSnap

(***************************************************************************)
(* The states of a filter name: Unset, Set-Enabled, Set-Disabled.          *)
(***************************************************************************)
HasFlags == cls.ok /\ cls.impl \in {"emitter", "flag"}

IsUnset(d, n) == ~Has(d, n)

IsSetEnabled(d, n) == Has(d, n) /\ Get(d, n).enabled

IsSetDisabled(d, n) == Has(d, n) /\ ~Get(d, n).enabled

NamedIn(l, n) ==
    \E i \in 1..Len(l.args) :
        IF l.op = "set" THEN l.args[i][1] = n ELSE l.args[i] = n

\* Claim C17 as worded: a name is Unset, Set-Enabled or Set-Disabled; set
\* takes an Unset name to Set-Enabled and keeps the enabled flag of a name
\* already set; enable and disable only move a name between Set-Enabled and
\* Set-Disabled and do nothing on an Unset name, without an error and
\* without creating an entry; no call takes a name from Unset to Set-Disabled.
C17_EnableStates ==
    [][HasFlags =>
         \A n \in Names :
             /\ (last'.op = "set" /\ last'.exc = "none" /\ NamedIn(last', n)) =>
                    /\ IsUnset(data, n) => IsSetEnabled(data', n)
                    /\ ~IsUnset(data, n) =>
                           /\ Has(data', n)
                           /\ Get(data', n).enabled = Get(data, n).enabled
             /\ (last'.op \in {"enable", "disable"} /\ NamedIn(last', n)) =>
                    /\ ~IsUnset(data, n) => ~IsUnset(data', n)
                    /\ IsUnset(data, n) => IsUnset(data', n) /\ last'.exc = "none"
             /\ IsUnset(data, n) => ~IsSetDisabled(data', n)
      ]_vars

\* enable of a name that is not set has thrown a TypeError
C17_Witness ==
    /\ IsFlag
    /\ last.op = "enable"
    /\ last.args = <<ADDED>>
    /\ IsUnset(last.before, ADDED)
    /\ last.exc = "TypeError"
    /\ IsUnset(data, ADDED)

(***************************************************************************)
(* The order of query()'s fragments.                                       *)
(***************************************************************************)
\* the same state, its values set in the opposite order
Reverse(s) == [i \in 1..Len(s) |-> s[Len(s) + 1 - i]]

SpecPos(field) == CHOOSE i \in 1..Len(cls.names) : FieldOf(cls.names[i]) = field

\* an extra fragment on a field MinPrice constrains too, so that nothing compacts
ExtraFragment == <<<<"price", [op |-> "$lt", v |-> 9]>>>>

\* the fragments of the document q, the extra fragment aside, are in the
\* order of the specification's names
InSpecOrder(q, from) ==
    /\ \A i, j \in from..Len(q.list) :
           i < j => SpecPos(q.list[i][1][1]) < SpecPos(q.list[j][1][1])
    /\ \A i, j \in 1..Len(q.obj) :
           i < j => SpecPos(q.obj[i][1]) < SpecPos(q.obj[j][1])

\* Claim C18: query() calls the converters of the names that are set in the
\* order of the specification's names, after the extra fragment, so the order
\* of the fragments under $and and the whole result depend on the
\* specification and the current state only, not on the order in which the
\* values were set.
C18_QueryInSpecOrder ==
    IsTracker =>
        /\ (last.op = "query" /\ last.exc = "none") =>
               /\ last.ret = T_query(Reverse(data), <<>>).q
               /\ InSpecOrder(last.ret, 1)
        /\ T_query(data, <<ExtraFragment>>) = T_query(Reverse(data), <<ExtraFragment>>)
        /\ (T_query(data, <<ExtraFragment>>).ok /\ Has(data, MIN)) =>
               LET q == T_query(data, <<ExtraFragment>>).q
               IN  /\ q.listed
                   /\ q.list[1] = ExtraFragment
                   /\ Len(q.list) = 1 + Len(data)
                   /\ InSpecOrder(q, 2)

\* query() on an instance whose AddedBefore was set before its MinPrice
C18_Witness ==
    /\ IsTracker
    /\ last.op = "query" /\ last.exc = "none"
    /\ KeySeq(data) = <<ADDED, MIN>>
    /\ KeySeq(last.ret.obj) = <<"price", "added">>
    /\ T_query(data, <<ExtraFragment>>).q.list =
           <<ExtraFragment,
             <<<<"price", [op |-> "$gte", v |-> Get(data, MIN).value.v]>>>>,
             <<<<"added", [op |-> "$lt", v |-> Get(data, ADDED).value.v]>>>>>>

(***************************************************************************)
(* Filter.js, filter.meta.                                                 *)
(* SpecMeta: a class made by Filter.create and the calls of its meta.  The *)
(* class carries, for each name, e = [hasF, f, hasC, c]: the meta object   *)
(* attached to the converter function (spec[name].filter.meta) and the     *)
(* config-level one (spec[name].meta), each of which may be absent.        *)
(***************************************************************************)
\* meta(name), the getter: the function's own object, the config-level keys
\* written over it, is what it returns
T_metaGet(e) ==
    LET meta   == IF e.hasF THEN e.f ELSE <<>>
        merged == IF e.hasC THEN Overlaid(meta, e.c, 1) ELSE meta
    IN  [ret |-> merged, e |-> IF e.hasF THEN [e EXCEPT !.f = merged] ELSE e]

\* meta(name, value), the setter
T_metaSet(e, value) ==
    IF value = <<>> THEN e
    ELSE [e EXCEPT !.hasF = TRUE,
                   !.f = Overlaid(IF e.hasF THEN e.f ELSE <<>>, value, 1)]

\* meta({name: value, ...})
RECURSIVE T_metaSetMany(_, _, _)
T_metaSetMany(ms, values, i) ==
    IF i > Len(values) THEN ms
    ELSE T_metaSetMany(
           Put(ms, values[i][1], T_metaSet(Get(ms, values[i][1]), values[i][2])),
           values, i + 1)

\* meta(): [ret, ms]
RECURSIVE T_metaAll(_, _)
T_metaAll(st, i) ==
    IF i > Len(st.ms) THEN st
    ELSE LET g == T_metaGet(st.ms[i][2])
         IN  T_metaAll([ret |-> Append(st.ret, <<st.ms[i][1], g.ret>>),
                        ms  |-> Put(st.ms, st.ms[i][1], g.e)], i + 1)

NoMeta == [hasF |-> FALSE, f |-> <<>>, hasC |-> FALSE, c |-> <<>>]

MetaEntries ==
    { NoMeta,
      [NoMeta EXCEPT !.hasF = TRUE, !.f = <<<<"foo", 1>>, <<"bar", 2>>>>],
      [NoMeta EXCEPT !.hasC = TRUE, !.c = <<<<"bar", 7>>>>],
      [hasF |-> TRUE, f |-> <<<<"foo", 1>>, <<"bar", 2>>>>,
       hasC |-> TRUE, c |-> <<<<"bar", 7>>>>] }

MetaValues == { <<>>, <<<<"bar", 1>>>>, <<<<"foo", 2>>>>, <<<<"bar", 1>>, <<"foo", 2>>>> }

InitMeta ==
    /\ MergeIdle
    /\ \E e \in MetaEntries :
         cls = [impl |-> "tracker", ok |-> TRUE, shape |-> "wrapped", type |-> "Product",
                names |-> <<MIN, ADDED>>, spec |-> Entries(NoHooks),
                meta |-> <<<<MIN, e>>, <<ADDED, NoMeta>>>>]
    /\ data = <<>>
    /\ resetSnap = <<>>
    /\ tracking = [paused |-> 0, queue |-> <<>>, trackers |-> {}]
    /\ emitc = [status |-> TRUE, changed |-> FALSE]
    /\ last = [op |-> "create", args |-> <<>>, exc |-> "none", ret |-> <<>>]

M_Done(ms, op, args, exc, ret) ==
    /\ cls' = [cls EXCEPT !.meta = ms]
    /\ last' = [op |-> op, args |-> args, exc |-> exc, ret |-> ret]
    /\ UNCHANGED <<data, resetSnap, tracking, emitc, mergeVars>>

\* meta(name): spec[name] of a name the specification lacks is undefined
M_Get ==
    \E name \in Names \cup {"Missing"} :
        IF ~SpecHas(name)
        THEN M_Done(cls.meta, "meta", <<name>>, "TypeError", <<>>)
        ELSE LET g == T_metaGet(Get(cls.meta, name))
             IN  M_Done(Put(cls.meta, name, g.e), "meta", <<name>>, "none", g.ret)

\* meta(name, value)
M_Set ==
    \E name \in Names \cup {"Missing"}, value \in MetaValues :
        IF ~SpecHas(name) /\ value # <<>>
        THEN M_Done(cls.meta, "metaSet", <<name, value>>, "TypeError", <<>>)
        ELSE IF ~SpecHas(name)
        THEN M_Done(cls.meta, "metaSet", <<name, value>>, "none", <<>>)
        ELSE M_Done(Put(cls.meta, name, T_metaSet(Get(cls.meta, name), value)),
                    "metaSet", <<name, value>>, "none", <<>>)

\* meta({name: value})
M_SetMany ==
    \E v \in MetaValues \ {<<>>}, w \in {<<>>, <<<<"foo", 3>>>>} :
        LET values == <<<<MIN, v>>, <<ADDED, w>>>>
        IN  M_Done(T_metaSetMany(cls.meta, values, 1), "metaSetMany", values, "none", <<>>)

\* meta()
M_All ==
    LET st == T_metaAll([ret |-> <<>>, ms |-> cls.meta], 1)
    IN  M_Done(st.ms, "metaAll", <<>>, "none", st.ret)

NextMeta == M_Get \/ M_Set \/ M_SetMany \/ M_All

SpecMeta == InitMeta /\ [][NextMeta]_vars

(***************************************************************************)
(* The metadata.                                                           *)
(***************************************************************************)
\* ret is f with c written over it
IsOverlay(ret, e) ==
    /\ Keys(ret) = (IF e.hasF THEN Keys(e.f) ELSE {}) \cup (IF e.hasC THEN Keys(e.c) ELSE {})
    /\ \A k \in Keys(ret) :
           Get(ret, k) = IF e.hasC /\ Has(e.c, k) THEN Get(e.c, k) ELSE Get(e.f, k)

\* Claim C19 as worded: meta(name) returns the function-attached metadata
\* with the config-level metadata laid over it, and after meta(name, m)
\* every key k of m reads back as meta(name)[k] = m[k], also when the config
\* already had metadata for k.
C19_MetaReadsBack ==
    /\ [][(last'.op = "meta" /\ last'.exc = "none") =>
              IsOverlay(last'.ret, Get(cls.meta, last'.args[1]))]_vars
    /\ []((last.op = "metaSet" /\ last.exc = "none" /\ SpecHas(last.args[1])) =>
            \A k \in Keys(last.args[2]) :
                Get(T_metaGet(Get(cls.meta, last.args[1])).ret, k) = Get(last.args[2], k))

\* meta('MinPrice', {bar: 1}) on a class whose config has bar: 7 for MinPrice
\* has returned, and meta('MinPrice').bar is 7
C19_Witness ==
    /\ last.op = "metaSet"
    /\ last.args = <<MIN, <<<<"bar", 1>>>>>>
    /\ Get(cls.meta, MIN).hasC
    /\ Get(T_metaGet(Get(cls.meta, MIN)).ret, "bar") = 7
    /\ Get(Get(cls.meta, MIN).f, "bar") = 1

(***************************************************************************)
(* Filter.js, set: the callback handed to beforeSet.                       *)
(* SpecHook: an instance whose MinPrice has the README's beforeSet hook,   *)
(* calling callback(low) while it runs ("low") or from a timer             *)
(* ("lowLater"); out is the list of the callbacks the timers still hold,   *)
(* each with the name and the value it will pass.                          *)
(***************************************************************************)
MaxPending == 2

\* the deferred callback writes into the instance
T_callbackStoresMutant(d, p) == Put(d, p.key, [value |-> p.arg])

\* callback(newValue) called when set has returned: `value = newValue` on the
\* variable of a forEach iteration that has ended; _data is not touched
T_callbackLater(d, p) == d

\* the timers the beforeSet hooks of a set of these items start
RECURSIVE T_timers(_, _)
T_timers(items, i) ==
    IF i > Len(items) THEN <<>>
    ELSE (IF /\ SpecHas(items[i][1])
             /\ Get(cls.spec, items[i][1]).beforeSet = "lowLater"
             /\ Less(items[i][2], Low)
          THEN <<[key |-> items[i][1], arg |-> Low]>>
          ELSE <<>>) \o T_timers(items, i + 1)

HookKinds == {"low", "lowLater"}

HookSetInputs == Singles \cup { <<<<ADDED, Num(1)>>, <<MIN, Num(1)>>>> }

InitHook ==
    /\ frags = <<>>
    /\ emitc = [status |-> TRUE, changed |-> FALSE]
    /\ \E kind \in HookKinds :
         cls = T_create([shape |-> "wrapped", type |-> "Product",
                         items |-> Entries([beforeSet |-> kind, beforeUnset |-> "none"])])
    /\ \E set \in InitialSets :
         /\ data = T_new(set).data
         /\ resetSnap = T_newReset(set)
         /\ tracking = T_new(set).tr
         /\ out = T_timers(set, 1)
         /\ last = [op |-> "new", args |-> set, fired |-> <<>>, exc |-> "none"]

H_Start == [data |-> data, tr |-> tracking, fired |-> <<>>, touched |-> {},
            depth |-> 0, exc |-> "none"]

H_Done(m, op, args) ==
    /\ m.tr.paused <= MaxPaused
    /\ data' = m.data
    /\ tracking' = m.tr
    /\ last' = [op |-> op, args |-> args, fired |-> m.fired, exc |-> m.exc]
    /\ UNCHANGED <<frags, cls, resetSnap, emitc>>

\* set(items): the hooks that defer start their timers while set runs
H_Set ==
    \E items \in HookSetInputs :
        /\ Len(out) + Len(T_timers(items, 1)) <= MaxPending
        /\ out' = out \o T_timers(items, 1)
        /\ H_Done(T_set(H_Start, items), "set", items)

H_Unset ==
    /\ UNCHANGED out
    /\ \E ks \in {<<MIN>>, <<ADDED>>} : H_Done(T_unset(H_Start, ks), "unset", ks)

\* get(name): reactive, registers the name's dependency
H_Get ==
    /\ \E name \in Names :
         /\ tracking' = T_trackDepend(tracking, name)
         /\ last' = [op |-> "get", args |-> <<name>>, fired |-> <<>>, exc |-> "none"]
    /\ UNCHANGED <<frags, out, cls, data, resetSnap, emitc>>

\* a timer runs: callback(low), after the set that made it has returned
H_Callback ==
    /\ out # <<>>
    /\ data' = T_callbackLater(data, Head(out))
    /\ out' = Tail(out)
    /\ last' = [op |-> "callback", args |-> <<Head(out)>>, fired |-> <<>>, exc |-> "none"]
    /\ UNCHANGED <<frags, cls, resetSnap, tracking, emitc>>

NextHook == H_Set \/ H_Unset \/ H_Get \/ H_Callback

SpecHook == InitHook /\ [][NextHook]_vars

(***************************************************************************)
(* The beforeSet callback.                                                 *)
(***************************************************************************)
HookOf(key) == Get(cls.spec, key).beforeSet

\* the candidate of set(key, v) once the hook of key has run
Candidate(key, v) ==
    IF HookOf(key) = "low" /\ Less(v, Low) THEN Low ELSE v

\* Claim C20: a value the beforeSet hook passes to the callback while it runs
\* replaces the candidate, and is the value that is compared with the stored
\* one, stored and validated; a callback called after set has returned
\* changes neither the stored value nor fires a notification.
C20_CallbackOnlyWhileHookRuns ==
    [][/\ (last'.op = "set" /\ Len(last'.args) = 1) =>
            LET key == last'.args[1][1]
                c   == Candidate(key, last'.args[1][2])
            IN  IF StoredValue(data, key) = c
                THEN /\ data' = data
                     /\ last'.fired = <<>>
                     /\ last'.exc = "none"
                ELSE /\ StoredValue(data', key) = c
                     /\ last'.exc = "invalid value" <=> ~Filter(key, c).ok
       /\ last'.op = "callback" =>
            /\ data' = data
            /\ tracking' = tracking
            /\ last'.fired = <<>>
      ]_vars

\* set('MinPrice', 1) under the hook that calls back from a timer has stored
\* 1, which the callback, run since, has left there
C20_Witness ==
    /\ HookOf(MIN) = "lowLater"
    /\ last.op = "callback" /\ last.args = <<[key |-> MIN, arg |-> Low]>>
    /\ StoredValue(data, MIN) = Num(1)

(***************************************************************************)
(* save() and the constructor.                                             *)
(***************************************************************************)
\* no beforeSet hook of the class replaces the value it is given
NoSubstitutingHooks ==
    \A i \in 1..Len(cls.spec) : cls.spec[i][2].beforeSet \notin {"low", "lowLater"}

\* g = new filter(f.save()): it was constructed, and save() and query() of g
\* are deep-equal to those of f (query() of f threw exactly if that of g did)
RoundTrips(d) ==
    LET g == T_new(T_save(d))
    IN  /\ ~Threw(g)
        /\ ObjEquals(T_save(g.data), T_save(d))
        /\ T_query(g.data, <<>>).ok = T_query(d, <<>>).ok
        /\ QEquals(T_query(g.data, <<>>).q, T_query(d, <<>>).q)

\* Claim C21 as worded: for every reachable instance f of a class without
\* value-substituting hooks, a new instance constructed from f.save() has
\* save() deep-equal to f.save() and query() deep-equal to f.query().
C21_SaveRoundTrips ==
    (IsTracker /\ NoSubstitutingHooks) => RoundTrips(data)

\* an instance of a class without hooks holds a value a failed set left, and
\* the constructor throws for its save()
C21_Witness ==
    /\ IsTracker /\ HookFree
    /\ last.op = "set" /\ last.exc = "invalid value"
    /\ T_save(data) = <<<<MIN, Word>>>>
    /\ T_new(T_save(data)).exc = "invalid value"

(***************************************************************************)
(* filters/core.js: Filter.Where.                                          *)
(* SpecWhere: frags is [func, args], the factory's argument and the        *)
(* arguments the converter is called with; out is what the factory and the *)
(* converter made, and then the call func got when the $where predicate    *)
(* was invoked on a document.                                              *)
(***************************************************************************)
MaxArgs == 3

\* typeof func: a string becomes Function('return ' + func)
WhereFuncs == {"function", "string", "number"}

\* function Where(value): the closure holds the first argument alone
WhereBound(args) == <<IF Len(args) >= 1 THEN args[1] ELSE Undefined>>

\* Filter.Where(func)(args...): [threw, made, bound, called, receiver, received]
Where(func, args) ==
    IF func \notin {"string", "function"}
    THEN [threw |-> TRUE, made |-> FALSE, bound |-> <<>>,
          called |-> FALSE, receiver |-> 0, received |-> <<>>]
    ELSE [threw |-> FALSE, made |-> TRUE, bound |-> WhereBound(args),
          called |-> FALSE, receiver |-> 0, received |-> <<>>]

\* funcWrapper.call(doc): func.call(this, value)
FuncWrapper(w, doc) ==
    [w EXCEPT !.called = TRUE, !.receiver = doc, !.received = w.bound]

WhereArgs == UNION { [1..n -> Values] : n \in 0..MaxArgs }

Documents == {1, 2}

NoWhere == [threw |-> FALSE, made |-> FALSE, bound |-> <<>>,
            called |-> FALSE, receiver |-> 0, received |-> <<>>]

InitWhere ==
    /\ frags \in [func : WhereFuncs, args : WhereArgs]
    /\ out = NoWhere
    /\ InstIdle

ApplyWhere ==
    /\ ~out.made /\ ~out.threw
    /\ out' = Where(frags.func, frags.args)
    /\ UNCHANGED <<frags, instVars>>

InvokeWhere ==
    /\ out.made
    /\ \E doc \in Documents : out' = FuncWrapper(out, doc)
    /\ UNCHANGED <<frags, instVars>>

NextWhere == ApplyWhere \/ InvokeWhere

SpecWhere == InitWhere /\ [][NextWhere]_vars

\* the i-th parameter of a function called with the arguments s
Param(s, i) == IF i <= Len(s) THEN s[i] ELSE Undefined

\* Claim C22 as worded: when the $where predicate made by Where(fn)(args...)
\* is invoked on a document, fn runs with that document as its receiver and
\* receives every argument the converter was called with, in order.
C22_WhereBindsAll ==
    [][out'.called =>
         /\ \E doc \in Documents : out'.receiver = doc
         /\ \A i \in 1..Len(frags.args) : Param(out'.received, i) = frags.args[i]]_vars

\* the predicate of a converter called with two arguments ran on a document:
\* its function got the first argument alone
C22_Witness ==
    /\ out.called
    /\ Len(frags.args) = 2
    /\ frags.args[1] # frags.args[2]
    /\ out.received = <<frags.args[1]>>
    /\ out.receiver = 1

(***************************************************************************)
(* filters/core.js: Filter.Eq, Filter.Ne, Filter.In and Filter.Nin.        *)
(* SpecScalar: frags is the value a converter of the field "field" is      *)
(* called with, out is [op, threw, frag]: the converter called, whether it *)
(* threw, and the fragment it returned.                                    *)
(***************************************************************************)
MaxItems == 2

Bool(b) == [t |-> "boolean", b |-> b]
Date == [t |-> "date"]
Arr(s) == [t |-> "array", items |-> s]

\* typeof v
TypeOf(v) ==
    CASE v.t = "number" -> "number"
      [] v.t \in {"text", "string", "word"} -> "string"
      [] v.t = "boolean" -> "boolean"
      [] v.t = "undefined" -> "undefined"
      [] v.t = "function" -> "function"
      [] OTHER -> "object"         \* null, objects, arrays, dates, regexps

\* value !== null && typeof value !== 'string' && typeof value !== 'number'
InvalidScalar(value) ==
    value # Null /\ TypeOf(value) # "string" /\ TypeOf(value) # "number"

NoFragment == [threw |-> TRUE, frag |-> <<>>]

\* Filter.Eq(field)(value)
Eq(field, value) ==
    IF InvalidScalar(value) THEN NoFragment
    ELSE [threw |-> FALSE, frag |-> <<<<field, value>>>>]

\* Ne throws for null
NeRejectsNullMutant(field, value) ==
    IF value = Null \/ InvalidScalar(value) THEN NoFragment
    ELSE [threw |-> FALSE, frag |-> <<<<field, Obj(<<<<"$ne", value>>>>)>>>>]

\* Filter.Ne(field)(value)
Ne(field, value) ==
    IF InvalidScalar(value) THEN NoFragment
    ELSE [threw |-> FALSE, frag |-> <<<<field, Obj(<<<<"$ne", value>>>>)>>>>]

\* Filter.In(field)(values)
In(field, values) ==
    IF values.t # "array" THEN NoFragment
    ELSE IF Len(values.items) = 1 THEN Eq(field, values.items[1])
    ELSE [threw |-> FALSE, frag |-> <<<<field, Obj(<<<<"$in", values>>>>)>>>>]

\* Filter.Nin(field)(values)
Nin(field, values) ==
    IF values.t # "array" THEN NoFragment
    ELSE IF Len(values.items) = 1 THEN Ne(field, values.items[1])
    ELSE [threw |-> FALSE, frag |-> <<<<field, Obj(<<<<"$nin", values>>>>)>>>>]

FIELD == "field"

Scalars ==
    { Num(0), Num(1), Text(<<>>), Text(<<"a">>), Null, Undefined,
      Bool(TRUE), Obj(<<<<"bad", Text(<<"a">>)>>>>), Date }

Elements == { Num(1), Num(2), Text(<<"a">>), Null, Bool(TRUE), Date }

Arrays == { Arr(s) : s \in UNION { [1..n -> Elements] : n \in 0..MaxItems } }

NotCalled == [op |-> "none", threw |-> FALSE, frag |-> <<>>]

Called(op, r) == [op |-> op, threw |-> r.threw, frag |-> r.frag]

InitScalar ==
    /\ frags \in Scalars \cup Arrays
    /\ out = NotCalled
    /\ InstIdle

ApplyEq ==
    /\ out' = Called("Eq", Eq(FIELD, frags))
    /\ UNCHANGED <<frags, instVars>>

ApplyNe ==
    /\ out' = Called("Ne", Ne(FIELD, frags))
    /\ UNCHANGED <<frags, instVars>>

ApplyIn ==
    /\ out' = Called("In", In(FIELD, frags))
    /\ UNCHANGED <<frags, instVars>>

ApplyNin ==
    /\ out' = Called("Nin", Nin(FIELD, frags))
    /\ UNCHANGED <<frags, instVars>>

NextScalar == ApplyEq \/ ApplyNe \/ ApplyIn \/ ApplyNin

SpecScalar == InitScalar /\ [][NextScalar]_vars

IsStringOrNumber(v) == v.t \in {"number", "text"}

\* Claim C23 as worded: Eq and Ne accept only strings and numbers, Eq also
\* null; every other value, null for Ne included, fails; an accepted value v
\* yields {field: v} for Eq and {field: {$ne: v}} for Ne.
C23_NullForEqOnly ==
    /\ out.op = "Eq" =>
         IF IsStringOrNumber(frags) \/ frags = Null
         THEN ~out.threw /\ out.frag = <<<<FIELD, frags>>>>
         ELSE out.threw
    /\ out.op = "Ne" =>
         IF IsStringOrNumber(frags)
         THEN ~out.threw /\ out.frag = <<<<FIELD, Obj(<<<<"$ne", frags>>>>)>>>>
         ELSE out.threw

\* Claim C23 as amended: Eq and Ne both accept exactly the strings, the
\* numbers and null; every other value fails; an accepted value v yields
\* {field: v} for Eq and {field: {$ne: v}} for Ne.
C23_NullForEqAndNe ==
    /\ out.op = "Eq" =>
         IF IsStringOrNumber(frags) \/ frags = Null
         THEN ~out.threw /\ out.frag = <<<<FIELD, frags>>>>
         ELSE out.threw
    /\ out.op = "Ne" =>
         IF IsStringOrNumber(frags) \/ frags = Null
         THEN ~out.threw /\ out.frag = <<<<FIELD, Obj(<<<<"$ne", frags>>>>)>>>>
         ELSE out.threw

\* Ne was called with null and returned {field: {$ne: null}}
C23_Witness ==
    /\ out.op = "Ne"
    /\ frags = Null
    /\ ~out.threw
    /\ out.frag = <<<<FIELD, Obj(<<<<"$ne", Null>>>>)>>>>

\* the fragment C24 words for the converter op called with the array a
WordedIn(op, a) ==
    IF Len(a.items) = 1
    THEN IF op = "In" THEN <<<<FIELD, a.items[1]>>>>
         ELSE <<<<FIELD, Obj(<<<<"$ne", a.items[1]>>>>)>>>>
    ELSE <<<<FIELD, Obj(<<<<IF op = "In" THEN "$in" ELSE "$nin", a>>>>)>>>>

\* Claim C24 as worded: In and Nin fail exactly when the value is not an
\* array; an array of one element e gives the fragment of Eq resp. Ne for e,
\* {field: e} resp. {field: {$ne: e}}, and every other array gives
\* {field: {$in: values}} resp. {field: {$nin: values}}.
C24_InFailsOnlyOffArrays ==
    out.op \in {"In", "Nin"} =>
        IF frags.t = "array"
        THEN ~out.threw /\ out.frag = WordedIn(out.op, frags)
        ELSE out.threw

\* In was called with an array of one date and threw
C24_Witness ==
    /\ out.op = "In"
    /\ frags = Arr(<<Date>>)
    /\ out.threw

(***************************************************************************)
(* Filter.create (Filter.js and part_007): the composition of the "before" *)
(* functions set on the converter function with those of the config.       *)
(* SpecCompose: a class of one filter, MinPrice, whose hooks only record   *)
(* that they ran; cls.attached is what Filter.create found attached, frags *)
(* the hooks it left on the converter function; cls.spec holds for each    *)
(* hook name the functions spec[k][name] calls, none when spec[k] has no   *)
(* own property of that name. A call runs on m with a field ran, the log   *)
(* of the hooks called.                                                    *)
(***************************************************************************)
HookNames == {"beforeSet", "beforeUnset", "beforeEnable", "beforeDisable"}

\* the names the forEach of Filter.create goes through
Composes(impl) ==
    IF impl = "tracker" THEN {"beforeSet", "beforeUnset"} ELSE HookNames

Hook(on, name) == [on |-> on, name |-> name]

\* the config's function is called before the converter's
ComposeConfigFirstMutant(impl, onFilter, onConfig, name) ==
    (IF name \in onConfig THEN <<Hook("config", name)>> ELSE <<>>)
    \o (IF name \in Composes(impl) /\ name \in onFilter
        THEN <<Hook("filter", name)>> ELSE <<>>)

\* funcs, the functions spec[k][name] calls in turn
Compose(impl, onFilter, onConfig, name) ==
    IF name \in Composes(impl) /\ name \in onFilter
    THEN <<Hook("filter", name)>>
         \o (IF name \in onConfig THEN <<Hook("config", name)>> ELSE <<>>)
    ELSE IF name \in onConfig THEN <<Hook("config", name)>> ELSE <<>>

\* Filter.create({filters: {MinPrice: {filter: f, ...onConfig}}}), f with onFilter
K_create(impl, onFilter, onConfig) ==
    [impl |-> impl, ok |-> TRUE, names |-> <<MIN>>,
     attached |-> [filter |-> onFilter, config |-> onConfig],
     spec |-> <<<<MIN, [name \in HookNames |->
                          Compose(impl, onFilter, onConfig, name)]>>>>]

\* delete spec[k].filter[name]
K_left(impl, onFilter) == onFilter \ Composes(impl)

\* if (spec[k].hasOwnProperty(name)) spec[k][name].call(...)
K_run(m, k, name) == [m EXCEPT !.ran = @ \o Get(cls.spec, k)[name]]

\* Filter.js: set(k, v)
K_tSet(m, k, v) ==
    LET m1 == K_run(T_pauseTracking(m), k, "beforeSet")
    IN  T_continueTracking(
          IF StoredValue(m1.data, k) = v THEN m1
          ELSE T_trackChanged([m1 EXCEPT !.data = Put(@, k, [value |-> v])], k))

\* Filter.js: unset(k)
K_tUnset(m, k) ==
    LET m0 == T_pauseTracking(m)
    IN  T_continueTracking(
          IF ~Has(m0.data, k) THEN m0
          ELSE T_trackChanged(
                 [K_run(m0, k, "beforeUnset") EXCEPT !.data = Del(@, k)], k))

\* part_007: set(k, v)
K_fSet(m, k, v) ==
    LET m1  == K_run(F_stopEmittingChanges(m), k, "beforeSet")
        has == Has(m1.data, k)
        chg == IF has THEN Get(m1.data, k).value # v ELSE TRUE
        en  == IF has THEN Get(m1.data, k).enabled ELSE TRUE
    IN  F_finish([m |-> [m1 EXCEPT !.data = Put(@, k, [enabled |-> en, value |-> v])],
                  changed |-> chg])

\* part_007: unset(k)
K_fUnset(m, k) ==
    IF ~Has(m.data, k) THEN m
    ELSE F_ifChanged([m |-> [K_run(m, k, "beforeUnset") EXCEPT !.data = Del(@, k)],
                      changed |-> TRUE])

\* part_007: enable(k) (to = TRUE) and disable(k) (to = FALSE); the hooks of
\* this class leave _data alone, so the test after the hook finds what the
\* test before it found
K_fFlag(m, k, to) ==
    LET m0 == F_stopEmittingChanges(m)
        m1 == K_run(m0, k, IF to THEN "beforeEnable" ELSE "beforeDisable")
    IN  IF F_flagIsSet(m0.data, k, to)
        THEN F_finish([m |-> m0, changed |-> FALSE])
        ELSE IF ~Has(m1.data, k) THEN [m1 EXCEPT !.exc = "TypeError"]
        ELSE F_finish([m |-> [m1 EXCEPT !.data =
                                 Put(@, k, [Get(@, k) EXCEPT !.enabled = to])],
                       changed |-> TRUE])

InitCompose ==
    /\ out = [andDone |-> FALSE, and |-> NoQuery, queryDone |-> FALSE, query |-> NoQuery]
    /\ \E impl \in {"tracker", "flag"}, onFilter \in SUBSET HookNames,
          onConfig \in SUBSET HookNames :
         /\ cls = K_create(impl, onFilter, onConfig)
         /\ frags = K_left(impl, onFilter)
    /\ data = <<>>
    /\ resetSnap = <<>>
    /\ tracking = [paused |-> 0, queue |-> <<>>, trackers |-> {}]
    /\ emitc = [status |-> TRUE, changed |-> FALSE]
    /\ last = [op |-> "new", args |-> <<>>, ran |-> <<>>, exc |-> "none"]

K_Start == [data |-> data, tr |-> tracking, em |-> emitc, fired |-> <<>>,
            touched |-> {}, depth |-> 0, exc |-> "none", ran |-> <<>>]

K_Done(m, op, args) ==
    /\ data' = m.data
    /\ tracking' = m.tr
    /\ emitc' = m.em
    /\ last' = [op |-> op, args |-> args, ran |-> m.ran, exc |-> m.exc]
    /\ UNCHANGED <<cls, resetSnap, mergeVars>>

K_Set ==
    \E v \in {Num(1), Num(2)} :
        K_Done(IF cls.impl = "tracker" THEN K_tSet(K_Start, MIN, v)
                                       ELSE K_fSet(K_Start, MIN, v),
               "set", <<MIN, v>>)

K_Unset ==
    K_Done(IF cls.impl = "tracker" THEN K_tUnset(K_Start, MIN)
                                   ELSE K_fUnset(K_Start, MIN),
           "unset", <<MIN>>)

K_Enable ==
    /\ cls.impl = "flag"
    /\ K_Done(K_fFlag(K_Start, MIN, TRUE), "enable", <<MIN>>)

K_Disable ==
    /\ cls.impl = "flag"
    /\ K_Done(K_fFlag(K_Start, MIN, FALSE), "disable", <<MIN>>)

NextCompose == K_Set \/ K_Unset \/ K_Enable \/ K_Disable

SpecCompose == InitCompose /\ [][NextCompose]_vars

\* the hook a call triggers, "none" when it triggers none: set always does,
\* unset does for a name that is set, enable for a name that is not set and
\* enabled, disable for one that is
Triggered(op, d) ==
    CASE op = "set" -> "beforeSet"
      [] op = "unset" /\ Has(d, MIN) -> "beforeUnset"
      [] op = "enable" /\ ~(Has(d, MIN) /\ Get(d, MIN).enabled) -> "beforeEnable"
      [] op = "disable" /\ Has(d, MIN) /\ Get(d, MIN).enabled -> "beforeDisable"
      [] OTHER -> "none"

\* Claim C25: when a hook of the same name is attached both to the converter
\* function and to the filter's config, each triggering operation runs both
\* exactly once, the converter's first and the config's second; when only
\* one of them exists, that one alone runs (and no other hook runs).
C25_BothHooksInOrder ==
    [][LET name == Triggered(last'.op, data)
           onF  == name \in cls.attached.filter
           onC  == name \in cls.attached.config
       IN  last'.ran =
             (IF onF THEN <<Hook("filter", name)>> ELSE <<>>)
             \o (IF onC THEN <<Hook("config", name)>> ELSE <<>>)]_vars

\* a disable of an enabled name has run the converter's beforeDisable and
\* then the config's
C25_Witness ==
    /\ cls.impl = "flag"
    /\ last.op = "disable"
    /\ last.ran = <<Hook("filter", "beforeDisable"), Hook("config", "beforeDisable")>>
    /\ Has(data, MIN) /\ ~Get(data, MIN).enabled

(***************************************************************************)
(* part_007: enable and disable with hooks that act on their own name.     *)
(* SpecRecheck: the instance of SpecFlag, in a class whose beforeEnable    *)
(* sets a value for the name (a name that has none becomes set, enabled)   *)
(* and whose beforeDisable unsets the name.                                *)
(***************************************************************************)
RecheckHookSets ==
    { F_NoHooks,
      [F_NoHooks EXCEPT !.beforeEnable = "setSelf"],
      [F_NoHooks EXCEPT !.beforeEnable = "setSelf", !.beforeDisable = "unsetSelf"] }

InitRecheck ==
    /\ MergeIdle
    /\ tracking = [paused |-> 0, queue |-> <<>>, trackers |-> {}]
    /\ \E hs \in RecheckHookSets :
         cls = F_create([shape |-> "plain", type |-> "null", items |-> F_Entries(hs)])
    /\ \E set \in InitialSets :
         LET m == F_new(set)
         IN  /\ data = m.data
             /\ emitc = m.em
             /\ resetSnap = F_newReset(set)
             /\ last = [op |-> "new", args |-> set, before |-> <<>>,
                        fired |-> <<>>, exc |-> "none", ret |-> <<>>]

SpecRecheck == InitRecheck /\ [][NextFlag]_vars

IsEnabled(d, k) == Has(d, k) /\ Get(d, k).enabled

\* the entry of k with its flag as `to`, the rest of d as it is
Flipped(d, k, to) ==
    [i \in 1..Len(d) |->
       IF d[i][1] = k THEN <<k, [d[i][2] EXCEPT !.enabled = to]>> ELSE d[i]]

\* the last call was enable(k) (to = TRUE) or disable(k) (to = FALSE) of one
\* name that was not in the state asked for
IsFlip(l, k, to) ==
    /\ l.op = (IF to THEN "enable" ELSE "disable")
    /\ l.args = <<k>>
    /\ IsEnabled(l.before, k) # to

\* what the hook of k alone made of the instance the call began on
AfterHook(l, k, to) ==
    F_beforeFlag([data |-> l.before, em |-> [status |-> FALSE, changed |-> FALSE],
                  fired |-> <<>>, exc |-> "none"], k, to)

\* Claim C26 as worded: enable(name) / disable(name) on a name not yet in the
\* target state runs the hook and re-checks: if the hook brought the name
\* into the target state the call stops there, flips nothing and marks no
\* change of its own (it notifies as a call that changed nothing does);
\* otherwise it flips the enabled flag and marks its change.
C26_RecheckThenFlip ==
    \A k \in Names, to \in BOOLEAN :
        (cls.ok /\ IsFlip(last, k, to)) =>
            LET h == AfterHook(last, k, to)
            IN  /\ last.exc = "none"
                /\ IF IsEnabled(h.data, k) = to
                   THEN /\ data = h.data
                        /\ last.fired = F_restartEmittingChanges(h).fired
                   ELSE /\ Has(h.data, k)
                        /\ data = Flipped(h.data, k, to)
                        /\ last.fired =
                             F_restartEmittingChanges(F_emitChange(h)).fired

\* an enable of a name that has no value, in a class without hooks, threw
C26_Witness ==
    /\ cls.ok /\ cls.spec = F_Entries(F_NoHooks)
    /\ IsFlip(last, MIN, TRUE)
    /\ ~Has(last.before, MIN)
    /\ last.exc = "TypeError"
    /\ ~Has(data, MIN)

(***************************************************************************)
(* The pause counter between the calls.                                    *)
(***************************************************************************)
\* Claim C27 as worded: between public operations the pause counter is zero,
\* after a call of set, unset, clear or reset that returned as after one
\* that failed, so a call that returns normally and changed a name that has
\* a tracker has fired that tracker, whatever failed before it.
C27_CounterBackAtZero ==
    IsTracker =>
        /\ tracking.paused = 0
        /\ (last.op \in {"set", "unset", "clear", "reset"} /\ last.exc = "none") =>
               \A x \in last.touched : FiredOf(last, x.t) # {}

\* after a set that failed, a set that returned normally changed MinPrice,
\* which has a tracker: the counter is still 1, the tracker is queued and
\* nothing fired
C27_Witness ==
    /\ IsTracker /\ HookFree
    /\ last.op = "set" /\ last.exc = "none"
    /\ tracking.paused = 1
    /\ \E x \in last.touched : x.t = MIN
    /\ last.fired = <<>>
    /\ \E i \in 1..Len(tracking.queue) : tracking.queue[i] = MIN

(***************************************************************************)
(* A rejected set and the state.                                           *)
(***************************************************************************)
\* Claim C28 as worded: a set(name, v) that fails because the converter of
\* name rejects v leaves the state as it was before the call: get(name) and
\* save() return what they returned before, and a following query() fails
\* only if it failed before.
C28_RejectedSetLeavesState ==
    [][(IsTracker /\ last'.op = "set" /\ Len(last'.args) = 1
          /\ last'.exc = "invalid value") =>
         /\ StoredValue(data', last'.args[1][1]) = StoredValue(data, last'.args[1][1])
         /\ T_save(data') = T_save(data)
         /\ T_query(data, <<>>).ok => T_query(data', <<>>).ok]_vars

\* set('AddedBefore', v) threw for a value v its converter rejects, and v is
\* what get and save() return and what query() fails on
C28_Witness ==
    /\ IsRejectedSet /\ HookFree
    /\ last.exc = "invalid value"
    /\ last.args = <<<<ADDED, Word>>>>
    /\ StoredValue(data, ADDED) = Word
    /\ \E i \in 1..Len(T_save(data)) : T_save(data)[i] = <<ADDED, Word>>
    /\ ~T_query(data, <<>>).ok

(***************************************************************************)
(* The Or converter called twice.                                          *)
(***************************************************************************)
\* Claim C29 as worded: a call of a converter built by Or (And, Nor) never
\* modifies the fragments given to the factory, and a call with the values
\* of the call before it returns what that call returned.
C29_ConvertersPure ==
    [][/\ frags' = frags
       /\ out.orDone => (out'.threw = out.threw /\ QEquals(out'.or, out.or))]_vars

\* the second call of Or([{f1: 1}]): the first returned {f1: 1} and emptied
\* the fragment, this one was given [{}] and returned {}
C29_Witness ==
    /\ OrReturned
    /\ out.given = <<<<>>>>
    /\ frags = <<<<>>>>
    /\ out.or = NoQuery


(***************************************************************************)
(* SpecRegexFilter: a class made by Filter.create of Filter.js whose one   *)
(* filter is a converter of Filter.Regex, and one instance of it. frags    *)
(* holds the pattern and options the factory was given. An entry of _data  *)
(* is [has, value]: has is whether the entry owns a `value` property.      *)
(***************************************************************************)
BYNAME == "ByName"

\* the function Filter.Regex(field, regex, options) returns, called with
\* args: [ok, frag]; not ok is a throw
RegexConverter(field, regex, options, args) ==
    IF Len(args) > 0
    THEN [ok |-> FALSE, frag |-> <<>>]
    ELSE [ok |-> TRUE, frag |-> Regex(field, regex, options).frag]

\* spec[key].filter.call({name: key, filter: this}, value)
R_filter(key, value) ==
    RegexConverter("name", Prop(frags, REGEX), Prop(frags, OPTIONS), <<value>>)

\* this._data[key] = {}
NoValue == [has |-> FALSE, value |-> Undefined]

\* the body of set's forEach, for one key of a filter without hooks
R_setItem(m, key, value) ==
    IF Threw(m) THEN m
    ELSE IF ~SpecHas(key) THEN [m EXCEPT !.exc = "no filter spec"]
    ELSE
      LET m1 == IF Has(m.data, key) THEN m
                ELSE [m EXCEPT !.data = Put(@, key, NoValue)]
      IN  IF Get(m1.data, key).value = value THEN m1
          ELSE
            LET m2 == [m1 EXCEPT !.data = Put(@, key, [has |-> TRUE, value |-> value])]
                m3 == T_trackChanged(m2, key)
            IN  IF R_filter(key, value).ok THEN m3
                ELSE [m3 EXCEPT !.exc = "Regex filter does not take arguments"]

\* set(name, value)
R_set(m, key, value) ==
    T_finish(R_setItem(T_pauseTracking(Enter(m)), key, value))

\* save(): the entries that own a value
RECURSIVE R_save(_)
R_save(d) ==
    IF d = <<>> THEN <<>>
    ELSE (IF d[1][2].has THEN <<<<d[1][1], d[1][2].value>>>> ELSE <<>>)
         \o R_save(Tail(d))

\* query()'s forEach over the spec
RECURSIVE R_queries(_, _, _)
R_queries(d, names, i) ==
    IF i > Len(names) THEN <<>>
    ELSE (IF Has(d, names[i]) /\ Get(d, names[i]).has
          THEN <<R_filter(names[i], Get(d, names[i]).value)>>
          ELSE <<>>) \o R_queries(d, names, i + 1)

\* query(): [ok, q]; not ok when the converter threw
R_query(d) ==
    LET rs == R_queries(d, cls.names, 1)
    IN  IF \E i \in 1..Len(rs) : ~rs[i].ok
        THEN [ok |-> FALSE, q |-> NoQuery]
        ELSE [ok |-> TRUE, q |-> QueryMerge([i \in 1..Len(rs) |-> rs[i].frag])]

\* the arguments of Filter.Regex: all of them pass the factory's tests
RegexInputs ==
    { <<<<REGEX, Text(<<"x">>)>>>>,
      <<<<REGEX, Text(<<"x">>)>>, <<OPTIONS, Text(<<"i">>)>>>>,
      <<<<REGEX, RegExp(<<"x">>, <<"i">>)>>, <<OPTIONS, Text(<<"g">>)>>>>,
      <<<<REGEX, Num(3)>>, <<OPTIONS, Null>>>> }

RegexSetValues == {Undefined, Word, Num(1), Text(<<"x">>)}

RegexSetNames == {BYNAME, "Missing"}

InitRegexFilter ==
    /\ frags \in RegexInputs
    /\ ~Regex("name", Prop(frags, REGEX), Prop(frags, OPTIONS)).threw
    /\ out = [andDone |-> FALSE, and |-> NoQuery, queryDone |-> FALSE, query |-> NoQuery]
    /\ cls = T_create([shape |-> "wrapped", type |-> "Product",
                       items |-> <<<<BYNAME, NoHooks>>>>])
    /\ data = <<>>
    /\ resetSnap = <<>>
    /\ tracking = [paused |-> 0, queue |-> <<>>, trackers |-> {}]
    /\ emitc = [status |-> TRUE, changed |-> FALSE]
    /\ last = [NoCall EXCEPT !.op = "new"]

R_Set ==
    \E key \in RegexSetNames, value \in RegexSetValues :
        T_Done(R_set(Start, key, value), "set", <<key, value>>)

R_Unset == T_Done(T_unset(Start, <<BYNAME>>), "unset", <<BYNAME>>)

\* get(name): reactive, registers the name's dependency
R_Get ==
    /\ IsTracker
    /\ tracking' = T_trackDepend(tracking, BYNAME)
    /\ last' = [NoCall EXCEPT !.op = "get", !.args = <<BYNAME>>,
                              !.ret = <<IF Has(data, BYNAME) THEN Get(data, BYNAME).value
                                          ELSE Undefined>>]
    /\ UNCHANGED <<cls, data, resetSnap, emitc, mergeVars>>

R_Save ==
    /\ IsTracker
    /\ tracking' = T_trackDepend(tracking, ROOT)
    /\ last' = [NoCall EXCEPT !.op = "save", !.ret = R_save(data)]
    /\ UNCHANGED <<cls, data, resetSnap, emitc, mergeVars>>

R_Query ==
    /\ IsTracker
    /\ tracking' = T_trackDepend(tracking, ROOT)
    /\ LET r == R_query(data)
       IN  last' = [NoCall EXCEPT
                      !.op = "query",
                      !.exc = IF r.ok THEN "none"
                              ELSE "Regex filter does not take arguments",
                      !.ret = r.q]
    /\ UNCHANGED <<cls, data, resetSnap, emitc, mergeVars>>

NextRegexFilter == R_Set \/ R_Unset \/ R_Get \/ R_Save \/ R_Query

SpecRegexFilter == InitRegexFilter /\ [][NextRegexFilter]_vars

\* the selector the Regex converter returns when it is called without arguments
RegexFragment == Regex("name", Prop(frags, REGEX), Prop(frags, OPTIONS)).frag

\* set(ByName, value) returns normally and query() then holds {name: regex}
SetsRegex(value) ==
    LET m == R_set(Start, BYNAME, value)
    IN  /\ ~Threw(m)
        /\ R_query(m.data).ok
        /\ Has(R_query(m.data).q.obj, "name")
        /\ Get(R_query(m.data).q.obj, "name") = RegexFragment[1][2]

\* C30: a filter built with Filter.Regex can serve as a filter of a
\* specification: on an instance of the class there is a set call of that
\* filter that returns normally, after which query() contains the filter's
\* {field: regex} fragment.
C30_RegexServesAsFilter ==
    \E value \in RegexSetValues : SetsRegex(value)

\* set('ByName', value) of a value other than undefined ran to the converter,
\* which threw because it was handed the value
C30_Witness ==
    /\ last.op = "set"
    /\ last.args[1] = BYNAME
    /\ last.args[2] # Undefined
    /\ last.exc = "Regex filter does not take arguments"
    /\ Has(data, BYNAME)
    /\ Get(data, BYNAME) = [has |-> TRUE, value |-> last.args[2]]
    /\ ~R_query(data).ok

=============================================================================
